---- MODULE Spec2Model ----
(***************************************************************************)
(* Model of nobifinder.py: the lexical preprocessor                        *)
(* (strip_comments_and_strings), the regex pattern tables (build_patterns, *)
(* build_member_patterns) and the two regex scanners (scan_file_for_usage, *)
(* scan_file_for_member_usage).                                            *)
(*                                                                         *)
(* A text is a sequence of one-character strings.  Python indices are      *)
(* 0-based, the indices here are 1-based: Python's i corresponds to i+1.   *)
(***************************************************************************)
EXTENDS Integers, Sequences, FiniteSets, TLC

(***************************************************************************)
(* Bounds                                                                  *)
(***************************************************************************)
\* longest input text of the preprocessor specification
MaxLen == 5

\* the longest text on which termination is checked
MaxLiveLen == 4
\* largest number of body fragments of a candidate file
MaxBody == 2

(***************************************************************************)
(* Characters                                                              *)
(***************************************************************************)
NL == "\n"
SP == " "
DQ == "\""
SQ == "'"
BS == "\\"

Lower == {"a","b","c","d","e","f","g","h","i","j","k","l","m","n","o","p","q","r","s","t","u","v","w","x","y","z"}
Upper == {"A","B","C","D","E","F","G","H","I","J","K","L","M","N","O","P","Q","R","S","T","U","V","W","X","Y","Z"}
Digit == {"0","1","2","3","4","5","6","7","8","9"}
\* [a-zA-Z_]
IdStart == Lower \cup Upper \cup {"_"}
\* [a-zA-Z0-9_], the word characters of \b and \w
IdChar == IdStart \cup Digit
\* \s
Space == {SP, NL, "\t"}

Max(S) == CHOOSE x \in S : \A y \in S : y <= x
Min(S) == CHOOSE x \in S : \A y \in S : x <= y

\* the sequence f itself, as an explicit tuple: TLC then computes the
\* elements once instead of at every application
Tuple(f) == f \o <<>>

\* F(v), with v computed once: the value of "LET x == v IN F(x)"
With(v, F(_)) == CHOOSE y \in {F(x) : x \in {v}} : TRUE

RECURSIVE Concat(_)
\* ''.join of a sequence of texts
Concat(ss) == IF ss = <<>> THEN <<>> ELSE Head(ss) \o Concat(Tail(ss))

(***************************************************************************)
(* strip_comments_and_strings.  An output cell is [ch, src]: ch is the     *)
(* character appended to result, src the 1-based index of the input        *)
(* character it was copied from (0 for the blank that replaces a literal). *)
(* src is history information only: the output text is the ch components.  *)
(***************************************************************************)
Cell(c, s) == [ch |-> c, src |-> s]

\* the text of a sequence of cells: ''.join(result)
TextOf(cells) == Tuple([k \in 1..Len(cells) |-> cells[k].ch])

RECURSIVE LineCommentEnd(_, _)
\* lines 634-635: while i < length and code[i] != '\n': i += 1
LineCommentEnd(code, k) ==
    IF k <= Len(code) /\ code[k] # NL THEN LineCommentEnd(code, k + 1) ELSE k

RECURSIVE BlockCommentScan(_, _, _)
\* lines 643-650: while i < length - 1: ... (k is the scan index, out the
\* line breaks appended so far)
BlockCommentScan(code, k, out) ==
    IF k < Len(code)
    THEN IF code[k] = "*" /\ code[k + 1] = "/"
         THEN [i |-> k + 2, out |-> out]
         ELSE BlockCommentScan(code, k + 1,
                  IF code[k] = NL THEN Append(out, Cell(NL, k)) ELSE out)
    ELSE [i |-> k, out |-> out]

RECURSIVE LiteralScanNoEscape(_, _, _)
\* LiteralScan without lines 658-659 and 670-671: a backslash is an ordinary
\* character of the literal
LiteralScanNoEscape(code, k, quote) ==
    IF k <= Len(code)
    THEN IF code[k] = quote THEN k + 1
         ELSE LiteralScanNoEscape(code, k + 1, quote)
    ELSE k

RECURSIVE LiteralScanUnguarded(_, _, _)
\* LiteralScan without the test 'i < length - 1' of lines 658 and 670: a
\* backslash always skips two characters
LiteralScanUnguarded(code, k, quote) ==
    IF k <= Len(code)
    THEN IF code[k] = quote THEN k + 1
         ELSE IF code[k] = BS
              THEN LiteralScanUnguarded(code, k + 2, quote)
              ELSE LiteralScanUnguarded(code, k + 1, quote)
    ELSE k

RECURSIVE LiteralScan(_, _, _)
\* lines 655-662 and 667-674: while i < length: quote / backslash / other
LiteralScan(code, k, quote) ==
    IF k <= Len(code)
    THEN IF code[k] = quote THEN k + 1
         ELSE IF code[k] = BS /\ k < Len(code)
              THEN LiteralScan(code, k + 2, quote)
              ELSE LiteralScan(code, k + 1, quote)
    ELSE k

\* which branch of the outer loop is taken at index i
StripBranch(code, i) ==
    IF i < Len(code) /\ code[i] = "/" /\ code[i + 1] = "/" THEN "line_comment"
    ELSE IF i < Len(code) /\ code[i] = "/" /\ code[i + 1] = "*" THEN "block_comment"
    ELSE IF code[i] = DQ THEN "double_quoted"
    ELSE IF code[i] = SQ THEN "single_quoted"
    ELSE "code"

\* one iteration of the outer loop (lines 630-677) started at index i:
\* the next index and the cells appended to result
StripIter(code, i) ==
    LET br == StripBranch(code, i) IN
    CASE br = "line_comment" ->
           LET j == LineCommentEnd(code, i) IN
           IF j <= Len(code)
           THEN [i |-> j + 1, out |-> <<Cell(NL, j)>>]
           ELSE [i |-> j, out |-> <<>>]
      [] br = "block_comment" -> BlockCommentScan(code, i + 2, <<>>)
      [] br = "double_quoted" ->
           [i |-> LiteralScan(code, i + 1, DQ), out |-> <<Cell(SP, 0)>>]
      [] br = "single_quoted" ->
           [i |-> LiteralScan(code, i + 1, SQ), out |-> <<Cell(SP, 0)>>]
      [] OTHER -> [i |-> i + 1, out |-> <<Cell(code[i], i)>>]

RECURSIVE StripFrom(_, _, _)
\* the outer loop: while i < length
StripFrom(code, i, acc) ==
    IF i <= Len(code)
    THEN StripFrom(code, StripIter(code, i).i, acc \o StripIter(code, i).out)
    ELSE acc

\* strip_comments_and_strings(code), as cells
StripCells(code) == StripFrom(code, 1, <<>>)

\* strip_comments_and_strings(code)
strip_comments_and_strings(code) == TextOf(StripCells(code))

(***************************************************************************)
(* Python's re, as far as the patterns of this program use it.  A pattern  *)
(* is a tree; Ends(r, s, p) is the set of positions at which a match of r  *)
(* that starts at position p of s can end (the position after its last     *)
(* character).  Every quantifier of the program's patterns is greedy and   *)
(* the patterns have no alternative that is a prefix of another, so the    *)
(* match re picks at a start position is the longest one.                  *)
(***************************************************************************)
Lit(s) == [t |-> "lit", s |-> s]
In(S) == [t |-> "in", S |-> S]
NotIn(S) == [t |-> "notin", S |-> S]
Cat(rs) == [t |-> "cat", rs |-> rs]
Alt(rs) == [t |-> "alt", rs |-> rs]
Star(r) == [t |-> "star", r |-> r]
Opt(r) == [t |-> "opt", r |-> r]
Plus(r) == Cat(<<r, Star(r)>>)
\* \b
WordB == [t |-> "wb"]
\* ^ and $ under re.MULTILINE
Bol == [t |-> "bol"]
Eol == [t |-> "eol"]
\* [a-zA-Z_][a-zA-Z0-9_]*
Ident == Cat(<<In(IdStart), Star(In(IdChar))>>)
\* [a-zA-Z_][a-zA-Z0-9_]*(?:\.[a-zA-Z_][a-zA-Z0-9_]*)*
Dotted == Cat(<<Ident, Star(Cat(<<Lit(<<".">>), Ident>>))>>)

IsWordAt(s, p) == p >= 1 /\ p <= Len(s) /\ s[p] \in IdChar

RECURSIVE Ends(_, _, _)
RECURSIVE EndsCat(_, _, _, _)
RECURSIVE EndsStar(_, _, _, _)

Ends(r, s, p) ==
    CASE r.t = "cat" -> EndsCat(r.rs, s, {p}, 1)
      [] r.t = "lit" ->
           IF p + Len(r.s) - 1 <= Len(s) /\ \A k \in 1..Len(r.s) : s[p + k - 1] = r.s[k]
           THEN {p + Len(r.s)} ELSE {}
      [] r.t = "in" -> IF p <= Len(s) /\ s[p] \in r.S THEN {p + 1} ELSE {}
      [] r.t = "notin" -> IF p <= Len(s) /\ s[p] \notin r.S THEN {p + 1} ELSE {}
      [] r.t = "wb" -> IF IsWordAt(s, p - 1) # IsWordAt(s, p) THEN {p} ELSE {}
      [] r.t = "bol" -> IF p = 1 \/ s[p - 1] = NL THEN {p} ELSE {}
      [] r.t = "eol" -> IF p = Len(s) + 1 \/ s[p] = NL THEN {p} ELSE {}
      [] r.t = "alt" -> UNION {Ends(r.rs[k], s, p) : k \in 1..Len(r.rs)}
      [] r.t = "opt" -> {p} \cup Ends(r.r, s, p)
      [] r.t = "star" -> EndsStar(r.r, s, {p}, {p})

\* the parts rs[k..] matched in sequence from any position of P
EndsCat(rs, s, P, k) ==
    IF k > Len(rs) \/ P = {} THEN P
    ELSE EndsCat(rs, s, UNION {Ends(rs[k], s, p) : p \in P}, k + 1)

\* zero or more r from the positions reached so far
EndsStar(r, s, frontier, seen) ==
    With((UNION {Ends(r, s, p) : p \in frontier}) \ seen, LAMBDA next :
        IF next = {} THEN seen ELSE EndsStar(r, s, next, seen \cup next))

RECURSIVE FindAllFrom(_, _, _)
\* the matches re.finditer yields from position p on: leftmost, then
\* longest, not overlapping (a span is [from, to), to exclusive)
FindAllFrom(r, s, p) ==
    IF p > Len(s) + 1 THEN <<>>
    ELSE With(Ends(r, s, p), LAMBDA E :
           IF E = {} THEN FindAllFrom(r, s, p + 1)
           ELSE With(Max(E), LAMBDA q :
                  <<[from |-> p, to |-> q]>>
                      \o FindAllFrom(r, s, IF q > p THEN q ELSE p + 1)))

\* pattern.findall(s) / re.findall(pattern, s): the spans of the matches
FindAll(r, s) == FindAllFrom(r, s, 1)

\* pattern.search(s) / re.search(pattern, s) is not None
Search(r, s) == \E p \in 1..(Len(s) + 1) : Ends(r, s, p) # {}

\* a pattern with one capturing group, as prefix, group and suffix: the
\* group's span in the match that starts at p (greedy prefix, then greedy
\* group), or <<>> when no match starts at p
GroupAt(pre, grp, suf, s, p) ==
    LET ok(b) == Ends(suf, s, b) # {} IN
    With({a \in Ends(pre, s, p) : \E b \in Ends(grp, s, a) : ok(b)}, LAMBDA As :
        IF As = {} THEN <<>>
        ELSE With(Max(As), LAMBDA a :
             With(Max({x \in Ends(grp, s, a) : ok(x)}), LAMBDA b :
                 <<[from |-> a, to |-> b, end |-> Max(Ends(suf, s, b))]>>)))

RECURSIVE FindAllGroupFrom(_, _, _, _, _)
\* re.findall of a pattern with one group: the texts the group captured
FindAllGroupFrom(pre, grp, suf, s, p) ==
    IF p > Len(s) + 1 THEN <<>>
    ELSE With({q \in p..(Len(s) + 1) : GroupAt(pre, grp, suf, s, q) # <<>>}, LAMBDA starts :
           IF starts = {} THEN <<>>
           ELSE With(GroupAt(pre, grp, suf, s, Min(starts)), LAMBDA g :
                  <<SubSeq(s, g[1].from, g[1].to - 1)>>
                      \o FindAllGroupFrom(pre, grp, suf, s,
                             IF g[1].end > Min(starts) THEN g[1].end
                             ELSE Min(starts) + 1)))

FindAllGroup(pre, grp, suf, s) == FindAllGroupFrom(pre, grp, suf, s, 1)

(***************************************************************************)
(* str.splitlines and str.strip                                            *)
(***************************************************************************)
RECURSIVE SplitCellsFrom(_, _, _)
\* the lines of a cell sequence from position p on; cur is the line so far
SplitCellsFrom(cells, p, cur) ==
    IF p > Len(cells) THEN (IF cur = <<>> THEN <<>> ELSE <<cur>>)
    ELSE IF cells[p].ch = NL
         THEN <<cur>> \o SplitCellsFrom(cells, p + 1, <<>>)
         ELSE SplitCellsFrom(cells, p + 1, Append(cur, cells[p]))

\* splitlines of a cell sequence (the line breaks are dropped)
SplitCells(cells) == SplitCellsFrom(cells, 1, <<>>)

\* a text as cells that each stand for themselves
AsCells(text) == Tuple([k \in 1..Len(text) |-> Cell(text[k], k)])

\* text.splitlines()
SplitLines(text) ==
    With(SplitCells(AsCells(text)), LAMBDA ls :
        Tuple([k \in 1..Len(ls) |-> TextOf(ls[k])]))

\* text.strip()
Strip(text) ==
    LET keep == {k \in 1..Len(text) : text[k] \notin Space} IN
    IF keep = {} THEN <<>> ELSE SubSeq(text, Min(keep), Max(keep))

(***************************************************************************)
(* The target (parse_target_metadata's result for the target file of the   *)
(* model: class Foo of package p).                                         *)
(***************************************************************************)
target_pkg == <<"p">>
class_name == <<"F", "o", "o">>
\* fqn = f"{package}.{class_name}" if package else class_name
Fqn(package, name) == IF package # <<>> THEN package \o <<".">> \o name ELSE name
fqn == Fqn(target_pkg, class_name)

(***************************************************************************)
(* build_patterns and build_member_patterns                                *)
(***************************************************************************)
kw_import == <<"i", "m", "p", "o", "r", "t">>
kw_package == <<"p", "a", "c", "k", "a", "g", "e">>
kw_override == <<"o", "v", "e", "r", "r", "i", "d", "e">>
kw_this == <<"t", "h", "i", "s">>
kw_is == <<"i", "s">>
kw_val == <<"v", "a", "l">>
kw_var == <<"v", "a", "r">>
kw_fun == <<"f", "u", "n">>
kw_class == <<"c", "l", "a", "s", "s">>
Ch(c) == Lit(<<c>>)
\* \s* and \s+
Sp0 == Star(In(Space))
Sp1 == Plus(In(Space))

\* the order in which scan_file_for_usage goes through the categories
ImportCategories == <<"import_fqn", "import_class", "direct_fqn">>
SimpleCategories ==
    <<"constructor", "type_annotation", "generic", "annotation", "instanceof",
      "simple_name">>

build_patterns(f, cn) ==
    [import_fqn |-> Cat(<<WordB, Lit(kw_import), Sp1, Lit(f), WordB>>),
     import_class |->
         Cat(<<WordB, Lit(kw_import), Sp1, Dotted, Ch("."), Lit(cn), WordB>>),
     direct_fqn |-> Cat(<<WordB, Lit(f), WordB>>),
     constructor |-> Cat(<<WordB, Lit(cn), Sp0, Ch("(")>>),
     type_annotation |-> Cat(<<Ch(":"), Sp0, Lit(cn), WordB>>),
     generic |->
         Cat(<<Ch("<"), Star(NotIn({"<", ">"})), WordB, Lit(cn), WordB,
               Star(NotIn({"<", ">"})), Ch(">")>>),
     annotation |-> Cat(<<Ch("@"), Lit(cn), WordB>>),
     instanceof |-> Cat(<<WordB, Lit(kw_is), Sp1, Lit(cn), WordB>>),
     simple_name |-> Cat(<<WordB, Lit(cn), WordB>>)]

\* the patterns of one member, in the dict's insertion order
build_member_patterns(member_name, member_type) ==
    IF member_type = "method"
    THEN <<[name |-> "call",
            re |-> Cat(<<WordB, Lit(member_name), Sp0, Ch("(")>>)],
           [name |-> "reference",
            re |-> Cat(<<Ch(":"), Ch(":"), Sp0, Lit(member_name), WordB>>)],
           [name |-> "override",
            re |-> Cat(<<WordB, Lit(kw_override), WordB, Star(NotIn({"{", NL})),
                         WordB, Lit(member_name), Sp0, Ch("(")>>)]>>
    ELSE IF member_type = "field"
    THEN <<[name |-> "dot_access",
            re |-> Cat(<<Ch("."), Sp0, Lit(member_name), WordB>>)],
           [name |-> "this_access",
            re |-> Cat(<<WordB, Lit(kw_this), Ch("."), Sp0, Lit(member_name),
                         WordB>>)],
           [name |-> "reference",
            re |-> Cat(<<Ch(":"), Ch(":"), Sp0, Lit(member_name), WordB>>)],
           [name |-> "named_arg",
            re |-> Cat(<<WordB, Lit(member_name), Sp0, Ch("=")>>)]>>
    ELSE <<>>

(***************************************************************************)
(* What both scanners compute before their line loop                       *)
(***************************************************************************)
\* lines 743-746 and 809-812: the package of the candidate file, "" if the
\* pattern finds none (searched in the raw content)
FilePackage(content) ==
    LET got == FindAllGroup(Cat(<<Bol, Sp0, Lit(kw_package), Sp1>>), Dotted,
                            Cat(<<Sp0, Opt(Ch(";")), Sp0, Eol>>), content)
    IN  IF got = <<>> THEN <<>> ELSE got[1]

\* has_import_or_fqn when the imports are not looked at
HasImportOrFqnNever(patterns, clean_content) == FALSE

\* lines 752-756 and 819-823
HasImportOrFqn(patterns, clean_content) ==
    \/ Search(patterns.import_fqn, clean_content)
    \/ Search(patterns.import_class, clean_content)
    \/ Search(patterns.direct_fqn, clean_content)

RECURSIVE SumCounts(_, _, _, _)
\* the sum over the categories names[k..] of len(patterns[name].findall(line))
SumCounts(patterns, names, line, k) ==
    IF k > Len(names) THEN 0
    ELSE Len(FindAll(patterns[names[k]], line)) + SumCounts(patterns, names, line, k + 1)

(***************************************************************************)
(* scan_file_for_usage: the body of the line loop                          *)
(***************************************************************************)
\* lines 768-770
ImportMatches(patterns, clean_line) == SumCounts(patterns, ImportCategories, clean_line, 1)

\* lines 773-776
RawSimpleMatches(patterns, clean_line) ==
    SumCounts(patterns, SimpleCategories, clean_line, 1)

\* ScopeFilter without the comparison of the two packages on line 782
ScopeFilterIgnoringPackage(n, strict, has, same_pkg, file_pkg, tgt_pkg) ==
    IF n > 0
    THEN IF strict /\ ~has THEN 0
         ELSE IF ~same_pkg /\ ~has THEN 0
         ELSE n
    ELSE n

\* lines 779-783: the filtering rules for simple name matches
ScopeFilter(simple_name_matches, strict, has, same_pkg, file_pkg, tgt_pkg) ==
    IF simple_name_matches > 0
    THEN IF strict /\ ~has THEN 0
         ELSE IF ~same_pkg /\ file_pkg # tgt_pkg /\ ~has THEN 0
         ELSE simple_name_matches
    ELSE simple_name_matches

(***************************************************************************)
(* scan_file_for_member_usage                                              *)
(***************************************************************************)
\* SkipStrict without the early return of lines 826-827
SkipStrictNever(strict, has) == FALSE

\* lines 826-827: the strict-import early return
SkipStrict(strict, has) == strict /\ ~has

\* lines 830-833: the early return of a file that neither is in the
\* target's package nor mentions the class
SkipScope(same_pkg, has, file_pkg, tgt_pkg, patterns, clean_content) ==
    /\ ~same_pkg /\ ~has /\ file_pkg # tgt_pkg
    /\ ~Search(patterns.simple_name, clean_content)

\* lines 836-842: the names collected as typed with the class (a set)
TypedVars(cn, clean_content) ==
    LET kotlin_typed ==
            FindAllGroup(Cat(<<Alt(<<Lit(kw_val), Lit(kw_var)>>), Sp1>>), Ident,
                         Cat(<<Sp0, Ch(":"), Sp0, Lit(cn), WordB>>), clean_content)
        java_typed == FindAllGroup(Cat(<<Lit(cn), Sp1>>), Ident, WordB, clean_content)
    IN  {kotlin_typed[k] : k \in 1..Len(kotlin_typed)}
            \cup {java_typed[k] : k \in 1..Len(java_typed)}

\* line 863: \bvar\s*\??\.\s*member\b
QualifiedPattern(var_name, member_name) ==
    Cat(<<WordB, Lit(var_name), Sp0, Opt(Ch("?")), Ch("."), Sp0, Lit(member_name),
          WordB>>)

\* line 869: \bClassName\s*\.\s*member\b
StaticPattern(cn, member_name) ==
    Cat(<<WordB, Lit(cn), Sp0, Ch("."), Sp0, Lit(member_name), WordB>>)

\* lines 857-876: what one pattern of one member adds to line_matches.
\* order is typed_vars in the order the set is iterated.
PatternAdds(pat, member_name, cn, order, has, clean_line) ==
    With(Len(FindAll(pat.re, clean_line)), LAMBDA matches :
        IF matches = 0 THEN 0
        ELSE IF pat.name \in {"dot_access", "this_access"} /\ order # <<>>
        THEN With({k \in 1..Len(order) :
                      Search(QualifiedPattern(order[k], member_name), clean_line)},
                  LAMBDA found :
                 IF found # {}
                 THEN Len(FindAll(QualifiedPattern(order[Min(found)], member_name),
                                  clean_line))
                 ELSE IF Search(StaticPattern(cn, member_name), clean_line)
                 THEN Len(FindAll(StaticPattern(cn, member_name), clean_line))
                 ELSE IF has THEN matches
                 ELSE 0)
        ELSE matches)

\* lines 853-876 for one member: what each of its patterns adds, in order
MemberAdds(member_name, member_type, cn, order, has, clean_line) ==
    LET pats == build_member_patterns(member_name, member_type) IN
    Tuple([k \in 1..Len(pats) |->
              [name |-> pats[k].name,
               n |-> PatternAdds(pats[k], member_name, cn, order, has, clean_line)]])

RECURSIVE SumAdds(_, _)
SumAdds(adds, k) == IF k > Len(adds) THEN 0 ELSE adds[k].n + SumAdds(adds, k + 1)

(***************************************************************************)
(* Inputs                                                                  *)
(***************************************************************************)
\* the characters of the preprocessor specification's input texts
StripAlphabet == {"a", "/", "*", DQ, SQ, BS, NL}

\* every text over StripAlphabet of at most MaxLen characters
ShortTexts == UNION {[1..n -> StripAlphabet] : n \in 0..MaxLen}

\* the inputs of the preprocessor specification: every short text, alone
\* and between two code characters
StripInputs == ShortTexts \cup {<<"a">> \o t \o <<"a">> : t \in ShortTexts}

\* the selected members of the target: method run, field id
method_members == <<(<<"r", "u", "n">>)>>
field_members == <<(<<"i", "d">>)>>

\* the first lines of a candidate file: package header and import
Headers ==
    {kw_package \o <<SP, "p", NL>>,
     kw_package \o <<SP, "q", NL>>}
Imports ==
    {<<>>,
     kw_import \o <<SP, "p", ".">> \o class_name \o <<NL>>,
     kw_import \o <<SP, "q", ".">> \o class_name \o <<NL>>}

\* Foo()
FragConstructor == class_name \o <<"(", ")", NL>>
\* two lines:  val f: Foo / f.id
FragTypedAccess ==
    kw_val \o <<SP, "f", ":", SP>> \o class_name \o <<NL, "f", ".", "i", "d", NL>>
\* x.id
FragOtherAccess == <<"x", ".", "i", "d", NL>>
\* Foo.id
FragStaticAccess == class_name \o <<".", "i", "d", NL>>
\* this.id
FragThisAccess == kw_this \o <<".", "i", "d", NL>>
\* f.run()
FragCall == <<"f", ".", "r", "u", "n", "(", ")", NL>>
\* class Foo { fun run() {} }
FragLocalClass ==
    <<"c", "l", "a", "s", "s", SP>> \o class_name
        \o <<SP, "{", SP, "f", "u", "n", SP, "r", "u", "n", "(", ")", SP, "{", "}",
             SP, "}", NL>>
\* // Foo run id
FragComment ==
    <<"/", "/", SP>> \o class_name \o <<SP, "r", "u", "n", SP, "i", "d", NL>>
\* a raw string over three lines:  s = """ / Foo / """
FragRawString ==
    <<"s", SP, "=", SP, DQ, DQ, DQ, NL>> \o class_name \o <<NL, DQ, DQ, DQ, NL>>

BodyFragments ==
    {FragConstructor, FragTypedAccess, FragOtherAccess,
     FragStaticAccess, FragThisAccess, FragCall, FragLocalClass, FragComment,
     FragRawString}

\* at most MaxBody different fragments, in any order
Bodies ==
    {b \in UNION {[1..n -> BodyFragments] : n \in 0..MaxBody} :
        \A x, y \in 1..Len(b) : x # y => b[x] # b[y]}

\* the candidate files: header, import, then a body
Files == {h \o im \o Concat(b) : h \in Headers, im \in Imports, b \in Bodies}

\* val a:Foo;val b:Foo
FragTwoTyped ==
    kw_val \o <<SP, "a", ":">> \o class_name \o <<";">>
        \o kw_val \o <<SP, "b", ":">> \o class_name \o <<NL>>

\* lines that use the two variables: a.id b.id b.id, b.id a.id,
\* a.run() b.run() b.run(), a.id
TwoTypedUses ==
    {<<"a", ".", "i", "d", SP, "b", ".", "i", "d", SP, "b", ".", "i", "d", NL>>,
     <<"b", ".", "i", "d", SP, "a", ".", "i", "d", NL>>,
     <<"a", ".", "r", "u", "n", "(", ")", SP, "b", ".", "r", "u", "n", "(", ")", NL>>,
     <<"a", ".", "i", "d", NL>>}

\* candidate files that declare two variables of the target type, with
\* or without a package header
TypedFiles ==
    {h \o FragTwoTyped \o u : h \in Headers \cup {<<>>}, u \in TwoTypedUses}

\* the method go of the target, selected alone or with run
method_go == <<"g", "o">>
MethodSelections == {method_members, <<method_go>>, method_members \o <<method_go>>}

\* val f=Foo()
FragConstructed == kw_val \o <<SP, "f", "=">> \o class_name \o <<"(", ")", NL>>
\* f.go()
FragCallGo == <<"f", ".", "g", "o", "(", ")", NL>>

\* import p.Foo
ImportFqn == kw_import \o <<SP>> \o fqn \o <<NL>>

\* the files of the users of the target: with or without a package, the
\* import of the target and the construction of a variable, and with calls
\* of the target's methods on it
UserFiles ==
    {h \o im \o c \o u :
        h \in Headers \cup {<<>>},
        im \in {<<>>, ImportFqn},
        c \in {<<>>, FragConstructed},
        u \in {<<>>, FragCall, FragCallGo, FragCall \o FragCallGo}}

\* the orders in which a set can be iterated
Orders(S) ==
    {f \in [1..Cardinality(S) -> S] :
        \A a, b \in 1..Cardinality(S) : a # b => f[a] # f[b]}

(***************************************************************************)
(* AstEngineKotlin.  The parser is a library: a parsed file is given by    *)
(* what the engine's queries capture in it.  A tree is                     *)
(*   [parsed, package, imports, nodes]                                     *)
(* parsed is FALSE when the file cannot be read or parse_file returns      *)
(* None; package is the text of the package header (None without one);     *)
(* imports are the captured import paths and nodes the captured            *)
(* identifiers [query, line, text], both in document order.                *)
(***************************************************************************)
None == <<"None">>

\* ASTHit (col is not modelled)
ASTHit(line, member, kind, snippet) == [line |-> line, member |-> member, kind |-> kind, snippet |-> snippet]

\* ASTResult; some = FALSE stands for a returned None
ASTResult(count, package, hits) == [some |-> TRUE, count |-> count, package |-> package, hits |-> hits]
NoResult == [some |-> FALSE, count |-> 0, package |-> None, hits |-> <<>>]

\* the identifiers a query captures under its name capture, in document
\* order.  The annotation query asks for an identifier in a user_type in
\* an annotation, the type query for an identifier in a user_type: what
\* the first captures, the second captures too.
Captures(ast_tree, query) ==
    SelectSeq(ast_tree.nodes, LAMBDA n :
        \/ n.query = query
        \/ query = "types" /\ n.query = "annotations")

\* name.endswith(f'.{target_class}')
EndsWithDot(name, target_class) ==
    /\ Len(name) > Len(target_class)
    /\ SubSeq(name, Len(name) - Len(target_class), Len(name)) = <<".">> \o target_class

\* the hits of one query: one per captured name the test keeps
HitsOf(captured, Keeps(_), Member(_), kind, Snippet(_)) ==
    With(SelectSeq(captured, Keeps), LAMBDA kept :
        Tuple([k \in 1..Len(kept) |->
            ASTHit(kept[k].line, Member(kept[k].text), kind, Snippet(kept[k].text))]))

InSeq(x, s) == \E k \in 1..Len(s) : s[k] = x

find_class_declarations(ast_tree, target_class) ==
    HitsOf(Captures(ast_tree, "declarations"), LAMBDA n : n.text = target_class,
           LAMBDA t : None, "class", LAMBDA t : t)

find_function_declarations(ast_tree, target_functions) ==
    HitsOf(Captures(ast_tree, "functions"), LAMBDA n : InSeq(n.text, target_functions),
           LAMBDA t : t, "function", LAMBDA t : t)

find_property_declarations(ast_tree, target_properties) ==
    HitsOf(Captures(ast_tree, "properties"), LAMBDA n : InSeq(n.text, target_properties),
           LAMBDA t : t, "property", LAMBDA t : t)

find_constructor_calls(ast_tree, target_class) ==
    HitsOf(Captures(ast_tree, "constructors"),
           LAMBDA n : n.text = target_class \/ EndsWithDot(n.text, target_class),
           LAMBDA t : None, "ctor", LAMBDA t : t)

find_annotations(ast_tree, target_class) ==
    HitsOf(Captures(ast_tree, "annotations"), LAMBDA n : n.text = target_class,
           LAMBDA t : None, "annotation", LAMBDA t : <<"@">> \o t)

find_type_references(ast_tree, target_class) ==
    HitsOf(Captures(ast_tree, "types"), LAMBDA n : n.text = target_class,
           LAMBDA t : None, "type", LAMBDA t : t)

\* the member_access query has the one capture member.name; a hit needs
\* is_likely_match, which is set for a capture named call.name only
find_member_usage(ast_tree, target_class, target_members) ==
    HitsOf(ast_tree.nodes,
           LAMBDA n : InSeq(n.text, target_members) /\ "member.name" = "call.name",
           LAMBDA t : t, "member", LAMBDA t : t)

\* import_path.split('.')[-1]
SimpleName(path) ==
    LET dots == {k \in 1..Len(path) : path[k] = "."} IN
    IF dots = {} THEN path ELSE SubSeq(path, Max(dots) + 1, Len(path))

\* the dictionary extract_imports returns, as its (key, value) pairs: the
\* loop overwrites import_path, the last captured import is the one kept
extract_imports(ast_tree) ==
    IF ast_tree.imports = <<>> THEN <<>>
    ELSE With(ast_tree.imports[Len(ast_tree.imports)], LAMBDA import_path :
             <<[key |-> SimpleName(import_path), value |-> import_path]>>)

extract_package(ast_tree) == ast_tree.package

\* all_hits of scan_file_ast (lines 493-506)
AllHits(ast_tree, target_class, m, mems) ==
    IF m = "class"
    THEN find_class_declarations(ast_tree, target_class)
             \o find_constructor_calls(ast_tree, target_class)
             \o find_annotations(ast_tree, target_class)
             \o find_type_references(ast_tree, target_class)
    ELSE IF m = "method"
    THEN find_function_declarations(ast_tree, mems)
             \o find_member_usage(ast_tree, target_class, mems)
    ELSE find_property_declarations(ast_tree, mems)
             \o find_member_usage(ast_tree, target_class, mems)

HasImport(imports, target_class, target_fqn) ==
    \E k \in 1..Len(imports) :
        imports[k].key = target_class \/ imports[k].value = target_fqn

scan_file_ast(ast_tree, target_class, target_fqn, m, mems, same, tgt_pkg, strict) ==
    IF ~ast_tree.parsed THEN NoResult
    ELSE With(HasImport(extract_imports(ast_tree), target_class, target_fqn), LAMBDA has_import :
         IF strict /\ ~has_import
         THEN ASTResult(0, extract_package(ast_tree), <<>>)
         ELSE IF ~same /\ extract_package(ast_tree) # tgt_pkg /\ ~has_import
         THEN ASTResult(0, extract_package(ast_tree), <<>>)
         ELSE With(AllHits(ast_tree, target_class, m, mems), LAMBDA all_hits :
                  ASTResult(Len(all_hits), extract_package(ast_tree), all_hits)))

\* main.scan_file converts the AST hits to the regex engine's records
\* (lines 1840-1848): hit.member or '' is the member, None being falsy
LegacyHits(m, hits) ==
    Tuple([k \in 1..Len(hits) |->
        IF m = "class" THEN [line |-> hits[k].line, snippet |-> hits[k].snippet]
        ELSE [line |-> hits[k].line, snippet |-> hits[k].snippet,
              member |-> (IF hits[k].member = None THEN <<>> ELSE hits[k].member),
              kind |-> hits[k].kind]])

\* largest number of captured identifiers of a parsed file
MaxNodes == 3

\* what a captured identifier can be: the query that captures it and its text
NodeShapes ==
    {[query |-> "declarations", text |-> class_name],
     [query |-> "constructors", text |-> class_name],
     [query |-> "annotations", text |-> class_name],
     [query |-> "types", text |-> class_name],
     [query |-> "types", text |-> <<"B">>],
     [query |-> "functions", text |-> method_members[1]],
     [query |-> "properties", text |-> field_members[1]]}

\* the captured identifiers of a file: the package header is line 1 and
\* the k-th identifier is on line k + 1
NodeLists ==
    {Tuple([k \in 1..Len(s) |-> [query |-> s[k].query, line |-> k + 1, text |-> s[k].text]]) :
        s \in UNION {[1..n -> NodeShapes] : n \in 0..MaxNodes}}

ImportPaths ==
    {<<>>, <<fqn>>, <<fqn, <<"q", ".", "B">> >>}

\* a file that cannot be read or parsed
NoTree == [parsed |-> FALSE, package |-> None, imports |-> <<>>, nodes |-> <<>>]

Trees ==
    {NoTree} \cup
    {[parsed |-> TRUE, package |-> p, imports |-> im, nodes |-> ns] :
        p \in {<<"p">>, <<"q">>}, im \in ImportPaths, ns \in NodeLists}

(***************************************************************************)
(* parse_target_metadata                                                   *)
(***************************************************************************)
kw_public == <<"p", "u", "b", "l", "i", "c">>
kw_private == <<"p", "r", "i", "v", "a", "t", "e">>
kw_protected == <<"p", "r", "o", "t", "e", "c", "t", "e", "d">>
kw_internal == <<"i", "n", "t", "e", "r", "n", "a", "l">>
kw_abstract == <<"a", "b", "s", "t", "r", "a", "c", "t">>
kw_final == <<"f", "i", "n", "a", "l">>
kw_open == <<"o", "p", "e", "n">>
kw_data == <<"d", "a", "t", "a">>
kw_sealed == <<"s", "e", "a", "l", "e", "d">>
kw_interface == <<"i", "n", "t", "e", "r", "f", "a", "c", "e">>
kw_enum == <<"e", "n", "u", "m">>
kw_annotation == <<"a", "n", "n", "o", "t", "a", "t", "i", "o", "n">>
kw_object == <<"o", "b", "j", "e", "c", "t">>

\* word\s+
Word(w) == Cat(<<Lit(w), Sp1>>)
\* (?:public\s+|private\s+|protected\s+|internal\s+)?
Visibility == Opt(Alt(<<Word(kw_public), Word(kw_private), Word(kw_protected), Word(kw_internal)>>))

\* class_patterns, each up to its capturing group [a-zA-Z_][a-zA-Z0-9_]*
class_patterns ==
    <<Cat(<<Bol, Sp0, Visibility,
            Opt(Alt(<<Word(kw_abstract), Word(kw_final), Word(kw_open)>>)),
            Opt(Word(kw_data)), Word(kw_class)>>),
      Cat(<<Bol, Sp0, Visibility, Word(kw_interface)>>),
      Cat(<<Bol, Sp0, Visibility, Word(kw_enum), Opt(Word(kw_class))>>),
      Cat(<<Bol, Sp0, Visibility, Opt(Word(kw_sealed)), Opt(Word(kw_data)),
            Word(kw_class)>>),
      Cat(<<Bol, Sp0, Visibility, Word(kw_annotation), Word(kw_class)>>)>>

RECURSIVE FindIterGroupFrom(_, _, _, _)
\* re.finditer of a pattern that ends with its one group: the spans
\* [from, to) of the group in the matches, in the order finditer yields them
FindIterGroupFrom(pre, grp, s, p) ==
    IF p > Len(s) + 1 THEN <<>>
    ELSE With({q \in p..(Len(s) + 1) : GroupAt(pre, grp, Cat(<<>>), s, q) # <<>>},
              LAMBDA starts :
           IF starts = {} THEN <<>>
           ELSE With(GroupAt(pre, grp, Cat(<<>>), s, Min(starts)), LAMBDA g :
                  <<[from |-> g[1].from, to |-> g[1].to]>>
                      \o FindIterGroupFrom(pre, grp, s,
                             IF g[1].end > Min(starts) THEN g[1].end
                             ELSE Min(starts) + 1)))

RECURSIVE ClassDeclarations(_, _)
\* the declarations the loop over class_patterns[k..] finds, as the spans
\* of their names: all the matches of one pattern, then those of the next
ClassDeclarations(content, k) ==
    IF k > Len(class_patterns) THEN <<>>
    ELSE FindIterGroupFrom(class_patterns[k], Ident, content, 1)
             \o ClassDeclarations(content, k + 1)

\* class_names
ClassNames(content) ==
    With(ClassDeclarations(content, 1), LAMBDA ds :
        Tuple([k \in 1..Len(ds) |-> SubSeq(content, ds[k].from, ds[k].to - 1)]))

\* next((name for name in class_names if name == filename_stem), class_names[0])
PreferStem(class_names, filename_stem) ==
    IF InSeq(filename_stem, class_names) THEN filename_stem ELSE class_names[1]

\* what parse_target_metadata returns; raised stands for the ValueError
parse_target_metadata(path) ==
    IF ~path.readable
    THEN [raised |-> TRUE, package |-> <<>>, class_name |-> <<>>, fqn |-> <<>>]
    ELSE With(ClassNames(path.content), LAMBDA class_names :
         IF class_names = <<>>
         THEN [raised |-> TRUE, package |-> <<>>, class_name |-> <<>>, fqn |-> <<>>]
         ELSE With(PreferStem(class_names, path.stem), LAMBDA name :
              [raised |-> FALSE, package |-> FilePackage(path.content),
               class_name |-> name, fqn |-> Fqn(FilePackage(path.content), name)]))

(***************************************************************************)
(* parse_target_members                                                    *)
(***************************************************************************)
kw_static == <<"s", "t", "a", "t", "i", "c">>
kw_synchronized == <<"s", "y", "n", "c", "h", "r", "o", "n", "i", "z", "e", "d">>
kw_suspend == <<"s", "u", "s", "p", "e", "n", "d">>
kw_if == <<"i", "f">>
kw_for == <<"f", "o", "r">>
kw_while == <<"w", "h", "i", "l", "e">>
kw_when == <<"w", "h", "e", "n">>

\* the elements of a sequence
Range(s) == {s[k] : k \in 1..Len(s)}

\* re.search(r, s).start(), 0 when there is no match
SearchStart(r, s) ==
    With({p \in 1..(Len(s) + 1) : Ends(r, s, p) # {}}, LAMBDA P :
        IF P = {} THEN 0 ELSE Min(P))

\* line 568: (?:data\s+)?class\s+Name\s*(?:\([^)]*\))?\s*(?:\:\s*[^{]*)?{
ClassPattern(cn) ==
    Cat(<<Opt(Word(kw_data)), Word(kw_class), Lit(cn), Sp0,
          Opt(Cat(<<Ch("("), Star(NotIn({")"})), Ch(")")>>)), Sp0,
          Opt(Cat(<<Ch(":"), Sp0, Star(NotIn({"{"}))>>)), Ch("{")>>)

\* lines 577-583: the val/var parameters of the primary constructor that
\* the first  class\s+Name\s*\(([^)]*)\)  of the text has
ConstructorFields(cn, remaining_content) ==
    With(FindAllGroup(Cat(<<Word(kw_class), Lit(cn), Sp0, Ch("(")>>),
                      Star(NotIn({")"})), Ch(")"), remaining_content),
         LAMBDA primary_constructor_match :
        IF primary_constructor_match = <<>> THEN {}
        ELSE Range(FindAllGroup(
                 Cat(<<Alt(<<Lit(kw_val), Lit(kw_var)>>), Sp1>>), Ident,
                 Cat(<<Sp0, Ch(":"), Sp0, Star(NotIn({",", ")"}))>>),
                 primary_constructor_match[1])))

\* ^\s*(?:public|private|protected)?\s*(?:static)?\s*(?:final)?\s*
JavaModifiers ==
    <<Bol, Sp0, Opt(Alt(<<Lit(kw_public), Lit(kw_private), Lit(kw_protected)>>)),
      Sp0, Opt(Lit(kw_static)), Sp0, Opt(Lit(kw_final)), Sp0>>

\* [a-zA-Z_][a-zA-Z0-9_<>,\s]*\s+
JavaType ==
    <<In(IdStart), Star(In(IdChar \cup {"<", ">", ","} \cup Space)), Sp1>>

\* field_patterns (lines 586-591), each as what precedes its group and
\* what follows it
field_patterns ==
    <<[pre |-> Cat(<<Bol, Sp0, Alt(<<Lit(kw_val), Lit(kw_var)>>), Sp1>>),
       suf |-> Cat(<<Sp0, In({":", "="})>>)],
      [pre |-> Cat(JavaModifiers \o JavaType),
       suf |-> Cat(<<Sp0, In({";", "="})>>)]>>

\* method_patterns (lines 602-607)
method_patterns ==
    <<[pre |-> Cat(<<Bol, Sp0, Opt(Word(kw_override)), Opt(Word(kw_suspend)),
                     Word(kw_fun)>>),
       suf |-> Cat(<<Sp0, Ch("(")>>)],
      [pre |-> Cat(JavaModifiers \o <<Opt(Lit(kw_synchronized)), Sp0>> \o JavaType),
       suf |-> Cat(<<Sp0, Ch("(")>>)]>>

\* the names the groups of the patterns capture in the text
NamesMatched(patterns, clean_content) ==
    UNION {Range(FindAllGroup(patterns[k].pre, Ident, patterns[k].suf, clean_content)) :
               k \in 1..Len(patterns)}

\* lines 575-583: the constructor's fields, when the class is found
ScopedFields(cn, clean_content) ==
    With(SearchStart(ClassPattern(cn), clean_content), LAMBDA class_start :
        IF class_start = 0 THEN {}
        ELSE ConstructorFields(cn,
                 SubSeq(clean_content, class_start, Len(clean_content))))

\* parse_target_members(code, cn): the names in the two sorted lists it
\* returns
parse_target_members(code, cn) ==
    With(strip_comments_and_strings(code), LAMBDA clean_content :
        [fields |-> ScopedFields(cn, clean_content)
                      \cup (NamesMatched(field_patterns, clean_content)
                              \ {kw_class, kw_interface, kw_enum, kw_fun, kw_val, kw_var}),
         methods |-> NamesMatched(method_patterns, clean_content)
                       \ {cn, kw_class, kw_interface, kw_enum, kw_if, kw_for,
                          kw_while, kw_when}])

\* largest number of declaration lines of a target file
MaxDecls == 2

\* the lines of a target file: declarations of every kind, and a line
\* that declares no class, interface or enum
DeclLines ==
    {kw_class \o <<SP, "B", NL>>,
     kw_data \o <<SP>> \o kw_class \o <<SP, "D", NL>>,
     kw_interface \o <<SP, "A", NL>>,
     kw_enum \o <<SP>> \o kw_class \o <<SP, "E", NL>>,
     kw_sealed \o <<SP>> \o kw_class \o <<SP, "S", NL>>,
     kw_annotation \o <<SP>> \o kw_class \o <<SP, "N", NL>>,
     kw_object \o <<SP, "O", NL>>,
     \* a block comment over three lines:  /* / class C / */
     <<"/", "*", NL>> \o kw_class \o <<SP, "C", NL, "*", "/", NL>>,
     \* a block comment over three lines:  /* / package c / */
     <<"/", "*", NL>> \o kw_package \o <<SP, "c", NL, "*", "/", NL>>,
     \* a line comment:  // class L
     <<"/", "/", SP>> \o kw_class \o <<SP, "L", NL>>}

\* the target files: a name, and a text of at most MaxDecls different lines
\* with or without a package header
TargetFiles ==
    {[stem |-> st, readable |-> TRUE, content |-> h \o Concat(b)] :
        st \in {<<"A">>, <<"B">>, <<"X">>},
        h \in {<<>>, kw_package \o <<SP, "p", NL>>},
        b \in {b \in UNION {[1..n -> DeclLines] : n \in 0..MaxDecls} :
                  \A x, y \in 1..Len(b) : x # y => b[x] # b[y]}}
    \cup {[stem |-> <<"X">>, readable |-> FALSE, content |-> <<>>]}

\* the top-level declarations of the target files whose members are
\* parsed: classes A and B with a property, with a function or with a
\* primary constructor, a top-level function and a top-level property
MemberDecls ==
    {kw_class \o <<SP, "A", "{", NL>> \o kw_val \o <<SP, "a", "=", "1", NL, "}", NL>>,
     kw_class \o <<SP, "A", "{", NL>> \o kw_fun \o <<SP, "f", "(", ")", "{", "}", NL, "}", NL>>,
     kw_class \o <<SP, "A", "(">> \o kw_val \o <<SP, "c", ":", "I", ")", "{", "}", NL>>,
     kw_class \o <<SP, "B", "{", NL>> \o kw_val \o <<SP, "b", "=", "1", NL, "}", NL>>,
     kw_class \o <<SP, "B", "{", NL>> \o kw_fun \o <<SP, "g", "(", ")", "{", "}", NL, "}", NL>>,
     kw_class \o <<SP, "B", "(">> \o kw_val \o <<SP, "d", ":", "I", ")", "{", "}", NL>>,
     kw_fun \o <<SP, "t", "(", ")", "{", "}", NL>>,
     kw_val \o <<SP, "v", "=", "1", NL>>}

\* the name of the class a declaration of MemberDecls declares, <<>> for
\* a top-level function or property
DeclaredClass(decl) == IF SubSeq(decl, 1, 5) = kw_class THEN <<decl[7]>> ELSE <<>>

\* the target files A.kt and B.kt of at most MaxDecls different
\* declarations, no class declared twice
MemberTargetFiles ==
    {[stem |-> st, readable |-> TRUE, content |-> Concat(b)] :
        st \in {<<"A">>, <<"B">>},
        b \in {b \in UNION {[1..n -> MemberDecls] : n \in 0..MaxDecls} :
                  \A x, y \in 1..Len(b) :
                      x # y => /\ b[x] # b[y]
                               /\ \/ DeclaredClass(b[x]) = <<>>
                                  \/ DeclaredClass(b[x]) # DeclaredClass(b[y])}}

(***************************************************************************)
(* GitignoreMatcher and iter_source_files.  A path is the sequence of its  *)
(* parts, a part is a text.                                                *)
(***************************************************************************)
n_build == <<"b", "u", "i", "l", "d">>
n_src == <<"s", "r", "c">>
n_out == <<"o", "u", "t">>
n_w == <<"w">>
n_U_kt == <<"U", ".", "k", "t">>
n_N_txt == <<"N", ".", "t", "x", "t">>

\* self.always_ignore (lines 111-113)
always_ignore ==
    {<<".", "g", "i", "t">>, n_build, n_out, <<"d", "i", "s", "t">>,
     <<"t", "a", "r", "g", "e", "t">>, <<".", "g", "r", "a", "d", "l", "e">>,
     <<".", "i", "d", "e", "a">>,
     <<"n", "o", "d", "e", "_", "m", "o", "d", "u", "l", "e", "s">>}

\* the scanned extensions: the default of --ext
exts == {<<".", "k", "t">>, <<".", "k", "t", "s">>, <<".", "j", "a", "v", "a">>}

\* Path.suffix: the name from its last dot on, when the dot is neither the
\* first nor the last character of the name
Suffix(name) ==
    With({k \in 1..Len(name) : name[k] = "."}, LAMBDA dots :
        IF dots = {} THEN <<>>
        ELSE IF Max(dots) > 1 /\ Max(dots) < Len(name)
             THEN SubSeq(name, Max(dots), Len(name)) ELSE <<>>)

\* self.spec.match_file(str(rel_path)) for patterns that are names
\* without a slash: a part of the path is the name
MatchFile(patterns, rel_path) ==
    \E k \in 1..Len(patterns) : InSeq(patterns[k], rel_path)

\* is_ignored without the always-ignored names
is_ignoredBySpecOnly(base, rel, has_pathspec, patterns) ==
    IF ~has_pathspec \/ patterns = <<>> THEN FALSE ELSE MatchFile(patterns, rel)

\* GitignoreMatcher.is_ignored (lines 138-153) of the matcher of root
\* base with the patterns of its .gitignore files; path = base + rel
is_ignored(base, rel, has_pathspec, patterns) ==
    With(base \o rel, LAMBDA parts :
        IF \E k \in 1..Len(parts) : parts[k] \in always_ignore THEN TRUE
        ELSE IF ~has_pathspec \/ patterns = <<>> THEN FALSE
        ELSE MatchFile(patterns, rel))

\* the order in which a directory lists its entries
Listing == <<n_N_txt, n_U_kt, n_build, n_src>>

\* the entries of the listing that are in the set
Listed(names) ==
    With(SelectSeq([k \in 1..Len(Listing) |-> k], LAMBDA k : Listing[k] \in names),
         LAMBDA ks : Tuple([j \in 1..Len(ks) |-> Listing[ks[j]]]))

\* dirnames and filenames of os.walk for the directory at dir below the
\* root, in a tree that holds the files (paths below the root)
Dirnames(files, dir) ==
    Listed({f[Len(dir) + 1] : f \in {f \in files :
               Len(f) > Len(dir) + 1 /\ SubSeq(f, 1, Len(dir)) = dir}})
Filenames(files, dir) ==
    Listed({f[Len(f)] : f \in {f \in files :
               Len(f) = Len(dir) + 1 /\ SubSeq(f, 1, Len(dir)) = dir}})

\* line 892: dirnames[:] = [d for d in dirnames if not ignore.is_ignored(current_dir / d)]
KeptDirnames(base, files, dir, has_pathspec, patterns) ==
    SelectSeq(Dirnames(files, dir),
              LAMBDA d : ~is_ignored(base, dir \o <<d>>, has_pathspec, patterns))

\* lines 894-905: the files of the directory that are yielded
YieldedOf(base, files, dir, has_pathspec, patterns) ==
    With(SelectSeq(Filenames(files, dir),
                   LAMBDA filename :
                       /\ Suffix(filename) \in exts
                       /\ ~is_ignored(base, dir \o <<filename>>, has_pathspec, patterns)),
         LAMBDA names : Tuple([k \in 1..Len(names) |-> dir \o <<names[k]>>]))

\* deepest directory below the root
MaxDepth == 2
\* largest number of files of a tree
MaxPaths == 2

\* the directories below the root, by depth
RECURSIVE DirChains(_)
DirChains(d) ==
    IF d = 0 THEN {<<>>}
    ELSE With(DirChains(d - 1), LAMBDA shorter :
             shorter \cup {c \o <<n>> : c \in {c \in shorter : Len(c) = d - 1},
                                        n \in {n_src, n_build}})

\* the files a tree can hold
TreePaths == {c \o <<n>> : c \in DirChains(MaxDepth), n \in {n_U_kt, n_N_txt}}

\* the trees: at most MaxPaths files
TreeFiles == UNION {{Range(fs) : fs \in [1..n -> TreePaths]} : n \in 0..MaxPaths}

\* where the root is: /w, /w/build, /out/w
RootLocations == {<<n_w>>, <<n_w, n_build>>, <<n_out, n_w>>}

\* the patterns of the .gitignore files of the tree: none, and src
GitignorePatterns == {<<>>, <<n_src>>}

(***************************************************************************)
(* main: the inputs of a run                                               *)
(***************************************************************************)
\* largest number of candidate files of a run
MaxFiles == 2
\* largest --max-workers
MaxWorkers == 2

\* package p / class Foo{ / fun run(){} / }
TargetText ==
    kw_package \o <<SP, "p", NL>> \o kw_class \o <<SP>> \o class_name \o <<"{", NL>>
        \o kw_fun \o <<SP, "r", "u", "n", "(", ")", "{", "}", NL, "}", NL>>

\* the target files of a run: Foo.kt, which declares p.Foo, and a file
\* that declares no class, interface or enum
RunTargets ==
    {[stem |-> class_name, readable |-> TRUE, content |-> TargetText,
      resolved |-> "Foo.kt", suffix |-> ".kt"],
     [stem |-> <<"O">>, readable |-> TRUE, content |-> kw_object \o <<SP, "O", NL>>,
      resolved |-> "O.kt", suffix |-> ".kt"]}

\* the target files of the runs in which the engine is selected: Foo.kt
\* and a Java file Foo.java that declares p.Foo
EngineTargets ==
    {[stem |-> class_name, readable |-> TRUE, content |-> TargetText,
      resolved |-> "Foo.kt", suffix |-> ".kt"],
     [stem |-> class_name, readable |-> TRUE,
      content |-> kw_package \o <<SP, "p", ";", NL>> \o kw_class \o <<SP>>
                      \o class_name \o <<"{", NL, "v", "o", "i", "d", SP, "r", "u", "n",
                              "(", ")", "{", "}", NL, "}", NL>>,
      resolved |-> "Foo.java", suffix |-> ".java"]}

\* --engine and the availability of the parser library in the runs of
\* main: no --engine with the library, --engine regex, --engine ast
\* without the library
RunEngines == {<<"None", TRUE>>, <<"regex", TRUE>>, <<"ast", FALSE>>}

\* a parsed file of the given package and imports in which the queries
\* capture the shapes, one per line from line 2 on
TreeOf(package, imports, shapes) ==
    [parsed |-> TRUE, package |-> package, imports |-> imports,
     nodes |-> Tuple([k \in 1..Len(shapes) |->
                  [query |-> shapes[k][1], line |-> k + 1, text |-> shapes[k][2]]])]

\* a candidate file: its path and what the path resolves to, its suffix,
\* whether it can be read, its text, what the parser makes of the text,
\* whether the AST scan of it raises and whether resolving its path raises
File(id, path, resolved, suffix, readable, text, ast_tree, ast_raises, raises) ==
    [id |-> id, path |-> path, resolved |-> resolved, suffix |-> suffix,
     readable |-> readable, content |-> text, tree |-> ast_tree,
     ast_raises |-> ast_raises, raises |-> raises]

UseText == kw_package \o <<SP, "p", NL>> \o FragConstructor
UseTree == TreeOf(<<"p">>, <<>>, <<(<<"constructors", class_name>>)>>)

\* the files the enumeration can find
Catalogue ==
    <<\* the target file itself
      File(1, "Foo.kt", "Foo.kt", ".kt", TRUE, TargetText,
           TreeOf(<<"p">>, <<>>, <<(<<"declarations", class_name>>)>>), FALSE, FALSE),
      \* package p / Foo()
      File(2, "A.kt", "A.kt", ".kt", TRUE, UseText, UseTree, FALSE, FALSE),
      \* package q / Foo()
      File(3, "B.kt", "B.kt", ".kt", TRUE, kw_package \o <<SP, "q", NL>> \o FragConstructor,
           TreeOf(<<"q">>, <<>>, <<(<<"constructors", class_name>>)>>), FALSE, FALSE),
      \* package q / import p.Foo
      File(4, "I.kt", "I.kt", ".kt", TRUE,
           kw_package \o <<SP, "q", NL>> \o kw_import \o <<SP>> \o fqn \o <<NL>>,
           TreeOf(<<"q">>, <<fqn>>, <<>>), FALSE, FALSE),
      \* package p / val f: Foo / f.id / f.run()
      File(5, "M.kt", "M.kt", ".kt", TRUE,
           kw_package \o <<SP, "p", NL>> \o FragTypedAccess \o FragCall,
           TreeOf(<<"p">>, <<>>, <<(<<"types", class_name>>)>>), FALSE, FALSE),
      \* a file that cannot be read
      File(6, "U.kt", "U.kt", ".kt", FALSE, <<>>, NoTree, FALSE, FALSE),
      \* a Java file: package p / Foo()
      File(7, "J.java", "J.java", ".java", TRUE, UseText, NoTree, FALSE, FALSE),
      \* a Kotlin file on which the AST scan raises
      File(8, "E.kt", "E.kt", ".kt", TRUE, UseText, UseTree, TRUE, FALSE),
      \* a path that cannot be resolved
      File(9, "R.kt", "R.kt", ".kt", TRUE, UseText, UseTree, FALSE, TRUE),
      \* a link to the target file
      File(10, "L.kt", "Foo.kt", ".kt", TRUE, TargetText,
           TreeOf(<<"p">>, <<>>, <<(<<"declarations", class_name>>)>>), FALSE, FALSE)>>

\* what iter_source_files can yield: at most MaxFiles different files
SourceFileLists ==
    {Tuple([k \in 1..Len(s) |-> Catalogue[s[k]]]) :
        s \in {s \in UNION {[1..n -> 1..Len(Catalogue)] : n \in 0..MaxFiles} :
                  \A x, y \in 1..Len(s) : x # y => s[x] # s[y]}}

RunModes == <<"class", "method">>
MembersOf(m) == IF m = "class" THEN <<>> ELSE IF m = "method" THEN method_members ELSE field_members

\* the file of a path
FileOfPath(path) == Catalogue[CHOOSE k \in 1..Len(Catalogue) : Catalogue[k].path = path]

\* file_path.suffix in {'.kt', '.kts'}
IsKotlin(f) == f.suffix \in {".kt", ".kts"}

(***************************************************************************)
(* State                                                                   *)
(***************************************************************************)
VARIABLES
    content,            \* the text of the file (code, for the preprocessor)
    mode,               \* "class", "method" or "field"; "strip" for the preprocessor alone
    members,            \* the selected members
    strict_import,      \* --strict-import
    same_pkg_ok,        \* --same-package-ok
    pc,                 \* "strip", "start" or "done"
    i,                  \* strip_comments_and_strings: the scan index
    start,              \* the index at which the last outer iteration began
    result,             \* strip_comments_and_strings: result, as cells
    file_package,       \* the scanners' locals, as they are at the return
    has_import_or_fqn,
    typed_vars,         \* in iteration order
    line_hits,
    total_matches,
    line_trace,         \* per scanned line, the counts the loop body computed
    tree,               \* the parsed file, for the AST engine
    ast_result,         \* what scan_file_ast returned
    main_pc,            \* main: where it is ("error" after a return 2, "exit"
                        \* after the return at its end); "idle" when no run is modelled
    exit_code,          \* what main returned, -1 while it runs
    target,             \* the target file: [stem, readable, content]
    metadata,           \* what parse_target_metadata returned
    engine,             \* 'ast' or 'regex'
    ast_engine,         \* whether ast_engine is an AstEngineKotlin (not None)
    max_workers,        \* --max-workers
    source_files,       \* the candidate files, in the order of the enumeration
    futures,            \* the pool's futures, one per submitted file
    results,            \* main's results list
    stats,              \* main's stats dictionary
    fi,                 \* the collector loop: the futures it is done with
    parser,             \* the engine's parser: the path of the file it parsed last
    args_engine,        \* args.engine: "None" when --engine is not given
    HAS_TREE_SITTER,    \* whether the parser library could be imported
    available_members,  \* what parse_target_members returned
    root,               \* the search root, as the parts of its resolved path
    tree_files,         \* the files of the tree, as paths below the root
    HAS_PATHSPEC,       \* whether the pathspec library could be imported
    gitignore,          \* the patterns of the .gitignore files of the tree
    walk_pc,            \* iter_source_files: "idle", "walk" or "done"
    pending,            \* os.walk: the directories still to visit
    yielded             \* the paths iter_source_files has yielded

vars ==
    <<content, mode, members, strict_import, same_pkg_ok, pc, i, start, result,
      file_package, has_import_or_fqn, typed_vars, line_hits, total_matches,
      line_trace, tree, ast_result, main_pc, exit_code, target, metadata,
      engine, ast_engine, max_workers, source_files, futures, results, stats,
      fi, parser, args_engine, HAS_TREE_SITTER, available_members, root,
      tree_files, HAS_PATHSPEC, gitignore, walk_pc, pending, yielded>>

\* the state of the AST engine's scan
ast_vars == <<tree, ast_result>>

\* what main is started with
\* the state of iter_source_files
walk_vars == <<root, tree_files, HAS_PATHSPEC, gitignore, walk_pc, pending, yielded>>
arg_vars == <<args_engine, HAS_TREE_SITTER, walk_vars>>

\* the state of main
run_vars ==
    <<main_pc, exit_code, target, metadata, engine, ast_engine, max_workers,
      source_files, futures, results, stats, fi, parser, arg_vars,
      available_members>>


scan_locals ==
    <<file_package, has_import_or_fqn, typed_vars, line_hits, total_matches,
      line_trace>>

\* the state of one scan of one file, when main is what is modelled
file_vars ==
    <<content, pc, i, start, result, scan_locals, ast_vars>>

InitLocals ==
    /\ i = 1
    /\ start = 0
    /\ result = <<>>
    /\ file_package = <<>>
    /\ has_import_or_fqn = FALSE
    /\ typed_vars = <<>>
    /\ line_hits = <<>>
    /\ total_matches = 0
    /\ line_trace = <<>>

\* no AST scan
InitNoAst ==
    /\ tree = NoTree
    /\ ast_result = NoResult

\* no enumeration
InitNoWalk ==
    /\ root = <<>>
    /\ tree_files = {}
    /\ HAS_PATHSPEC = FALSE
    /\ gitignore = <<>>
    /\ walk_pc = "idle"
    /\ pending = <<>>
    /\ yielded = <<>>

InitNoArgs == args_engine = "None" /\ HAS_TREE_SITTER = FALSE /\ InitNoWalk

NoTarget == [stem |-> <<>>, readable |-> FALSE, content |-> <<>>]
\* no inventory yet
NoMembers == [fields |-> {}, methods |-> {}]
NoMetadata == [raised |-> FALSE, package |-> <<>>, class_name |-> <<>>, fqn |-> <<>>]

\* main before the pool: no files, no futures, no results, the stats at 0
InitMainLocals ==
    /\ exit_code = -1
    /\ metadata = NoMetadata
    /\ available_members = NoMembers
    /\ engine = "regex"
    /\ ast_engine = FALSE
    /\ max_workers = 0
    /\ source_files = <<>>
    /\ futures = <<>>
    /\ results = <<>>
    /\ stats = [files_scanned |-> 0, files_with_errors |-> 0, ast_files |-> 0,
                regex_files |-> 0]
    /\ fi = 0
    /\ parser = ""

\* no run of main
InitNoRun ==
    /\ main_pc = "idle"
    /\ InitNoArgs
    /\ target = NoTarget
    /\ InitMainLocals

\* the preprocessor alone, on every short text
InitStrip ==
    /\ content \in StripInputs
    /\ mode = "strip"
    /\ members = <<>>
    /\ strict_import = FALSE
    /\ same_pkg_ok = FALSE
    /\ pc = "strip"
    /\ InitLocals
    /\ InitNoAst
    /\ InitNoRun

\* strip_comments_and_strings called on a text of at most MaxLiveLen
\* characters
InitStripLive ==
    /\ InitStrip
    /\ Len(content) <= MaxLiveLen

\* a class-mode scan of one candidate file
InitClass ==
    /\ content \in Files
    /\ mode = "class"
    /\ members = <<>>
    /\ strict_import = FALSE
    /\ same_pkg_ok = FALSE
    /\ pc = "start"
    /\ InitLocals
    /\ InitNoAst
    /\ InitNoRun

\* a method-mode or field-mode scan of one candidate file
InitMember ==
    /\ content \in Files
    /\ mode \in {"method", "field"}
    /\ members = (IF mode = "method" THEN method_members ELSE field_members)
    /\ strict_import = FALSE
    /\ same_pkg_ok = FALSE
    /\ pc = "start"
    /\ InitLocals
    /\ InitNoAst
    /\ InitNoRun

\* an AST scan of one Kotlin candidate file, in any mode
InitAst ==
    /\ content = <<>>
    /\ mode \in {"class", "method", "field"}
    /\ members = (IF mode = "class" THEN <<>>
                  ELSE IF mode = "method" THEN method_members ELSE field_members)
    /\ strict_import = FALSE
    /\ same_pkg_ok = FALSE
    /\ pc = "ast"
    /\ InitLocals
    /\ tree \in Trees
    /\ ast_result = NoResult
    /\ InitNoRun

\* main, about to parse the target file
InitTarget ==
    /\ content = <<>>
    /\ mode = "class"
    /\ members = <<>>
    /\ strict_import = FALSE
    /\ same_pkg_ok = FALSE
    /\ pc = "idle"
    /\ InitLocals
    /\ InitNoAst
    /\ main_pc = "parse_target"
    /\ InitNoArgs
    /\ target \in TargetFiles
    /\ InitMainLocals

\* main at the parsing of a target file with members
InitMembers ==
    /\ content = <<>>
    /\ mode = "class"
    /\ members = <<>>
    /\ strict_import = FALSE
    /\ same_pkg_ok = FALSE
    /\ pc = "idle"
    /\ InitLocals
    /\ InitNoAst
    /\ main_pc = "parse_target"
    /\ InitNoArgs
    /\ target \in MemberTargetFiles
    /\ InitMainLocals

\* a run of main, from the validation of its arguments on
InitRun ==
    /\ content = <<>>
    /\ mode = "class"
    /\ members = <<>>
    /\ strict_import = FALSE
    /\ same_pkg_ok = FALSE
    /\ pc = "idle"
    /\ InitLocals
    /\ InitNoAst
    /\ main_pc = "start"
    /\ \E e \in RunEngines : args_engine = e[1] /\ HAS_TREE_SITTER = e[2]
    /\ InitNoWalk
    /\ target \in RunTargets
    /\ InitMainLocals

\* a run of main with or without --engine, with or without the parser
\* library, on a Kotlin or a Java target file
InitEngine ==
    /\ content = <<>>
    /\ mode = "class"
    /\ members = <<>>
    /\ strict_import = FALSE
    /\ same_pkg_ok = FALSE
    /\ pc = "idle"
    /\ InitLocals
    /\ InitNoAst
    /\ main_pc = "start"
    /\ args_engine \in {"None", "ast", "regex"}
    /\ HAS_TREE_SITTER \in BOOLEAN
    /\ InitNoWalk
    /\ target \in EngineTargets
    /\ InitMainLocals

\* a method-mode or field-mode scan of a file that declares variables of
\* the target type
InitTyped ==
    /\ content \in TypedFiles
    /\ mode \in {"method", "field"}
    /\ members = (IF mode = "method" THEN method_members ELSE field_members)
    /\ strict_import = FALSE
    /\ same_pkg_ok = FALSE
    /\ pc = "start"
    /\ InitLocals
    /\ InitNoAst
    /\ InitNoRun

\* a scan, in class mode or in method mode, of a file of a user of the
\* target
InitUser ==
    /\ content \in UserFiles
    /\ \E sel \in {<<>>} \cup MethodSelections :
         /\ members = sel
         /\ mode = (IF sel = <<>> THEN "class" ELSE "method")
    /\ strict_import = FALSE
    /\ same_pkg_ok = FALSE
    /\ pc = "start"
    /\ InitLocals
    /\ InitNoAst
    /\ InitNoRun

\* iter_source_files at its start, on every tree, every location of
\* the root and with or without the pathspec library
InitWalk ==
    /\ content = <<>>
    /\ mode = "class"
    /\ members = <<>>
    /\ strict_import = FALSE
    /\ same_pkg_ok = FALSE
    /\ pc = "idle"
    /\ InitLocals
    /\ InitNoAst
    /\ main_pc = "idle"
    /\ args_engine = "None"
    /\ HAS_TREE_SITTER = FALSE
    /\ target = NoTarget
    /\ InitMainLocals
    /\ root \in RootLocations
    /\ tree_files \in TreeFiles
    /\ HAS_PATHSPEC \in BOOLEAN
    /\ gitignore \in GitignorePatterns
    /\ walk_pc = "walk"
    /\ pending = <<(<<>>)>>
    /\ yielded = <<>>

Init ==
    InitStrip \/ InitClass \/ InitMember \/ InitTyped \/ InitAst \/ InitTarget
        \/ InitMembers \/ InitUser \/ InitWalk \/ InitRun \/ InitEngine

(***************************************************************************)
(* Actions                                                                 *)
(***************************************************************************)
\* strip_comments_and_strings: one iteration of the outer loop
StripStep ==
    /\ pc = "strip"
    /\ i <= Len(content)
    /\ LET it == StripIter(content, i) IN
         /\ i' = it.i
         /\ result' = result \o it.out
    /\ start' = i
    /\ UNCHANGED <<content, mode, members, strict_import, same_pkg_ok, pc,
                   scan_locals, ast_vars, run_vars>>

\* strip_comments_and_strings: the loop ends, ''.join(result) is returned
StripReturn ==
    /\ pc = "strip"
    /\ i > Len(content)
    /\ pc' = "done"
    /\ UNCHANGED <<content, mode, members, strict_import, same_pkg_ok, i, start,
                   result, scan_locals, ast_vars, run_vars>>

MinOf(a, b) == IF a < b THEN a ELSE b

\* the hits of the lines k.. of a class-mode scan (lines 787-789)
RECURSIVE ClassHits(_, _, _)
ClassHits(trace, lines, k) ==
    IF k > Len(trace) THEN <<>>
    ELSE (IF trace[k].line_matches > 0
          THEN <<[line |-> k, snippet |-> Strip(lines[k])]>> ELSE <<>>)
             \o ClassHits(trace, lines, k + 1)

RECURSIVE ClassTotal(_, _)
ClassTotal(trace, k) ==
    IF k > Len(trace) THEN 0 ELSE trace[k].line_matches + ClassTotal(trace, k + 1)

\* scan_file_for_usage (lines 730-791) on a readable file.  strict and same
\* are the arguments strict_import and same_pkg_ok of the call; a local is
\* introduced as \E x \in {e}, which names the value of e.
ScanFileForUsage ==
    /\ pc = "start"
    /\ mode = "class"
    /\ \E patterns \in {build_patterns(fqn, class_name)},
          pkg \in {FilePackage(content)},
          cells \in {StripCells(content)},
          lines \in {SplitLines(content)} :
       \E clean_content \in {TextOf(cells)} :
       \E has \in {HasImportOrFqn(patterns, clean_content)},
          clean_lines \in {SplitLines(clean_content)} :
       \* zip(lines, clean_lines) stops at the shorter one
       \E n \in {MinOf(Len(lines), Len(clean_lines))} :
       \E counts \in
              {Tuple([k \in 1..n |->
                         [imports |-> ImportMatches(patterns, clean_lines[k]),
                          raw |-> RawSimpleMatches(patterns, clean_lines[k])]])} :
       \E strict \in BOOLEAN, same \in BOOLEAN :
       \E trace \in
              {Tuple([k \in 1..n |->
                         LET kept == ScopeFilter(counts[k].raw, strict, has, same,
                                                 pkg, target_pkg)
                         IN  [imports |-> counts[k].imports, raw |-> counts[k].raw,
                              simple_name_matches |-> kept,
                              line_matches |-> counts[k].imports + kept]])} :
         /\ strict_import' = strict
         /\ same_pkg_ok' = same
         /\ file_package' = pkg
         /\ result' = cells
         /\ has_import_or_fqn' = has
         /\ line_trace' = trace
         /\ line_hits' = ClassHits(trace, lines, 1)
         /\ total_matches' = ClassTotal(trace, 1)
    /\ pc' = "done"
    /\ UNCHANGED <<content, mode, members, i, start, typed_vars, ast_vars, run_vars>>

\* the hits of the members j.. on line k (lines 878-880)
RECURSIVE MemberLineHits(_, _, _, _, _, _)
MemberLineHits(adds, lines, k, names, kind, j) ==
    IF j > Len(names) THEN <<>>
    ELSE (IF SumAdds(adds[j], 1) > 0
          THEN <<[line |-> k, snippet |-> Strip(lines[k]), member |-> names[j],
                  kind |-> kind]>>
          ELSE <<>>)
             \o MemberLineHits(adds, lines, k, names, kind, j + 1)

RECURSIVE MemberHits(_, _, _, _, _)
MemberHits(trace, lines, names, kind, k) ==
    IF k > Len(trace) THEN <<>>
    ELSE MemberLineHits(trace[k], lines, k, names, kind, 1)
             \o MemberHits(trace, lines, names, kind, k + 1)

RECURSIVE MemberLineTotal(_, _)
MemberLineTotal(adds, j) ==
    IF j > Len(adds) THEN 0 ELSE SumAdds(adds[j], 1) + MemberLineTotal(adds, j + 1)

RECURSIVE MemberTotal(_, _)
MemberTotal(trace, k) ==
    IF k > Len(trace) THEN 0
    ELSE MemberLineTotal(trace[k], 1) + MemberTotal(trace, k + 1)

\* scan_file_for_member_usage (lines 794-882) on a readable file.  strict
\* and same are the arguments strict_import and same_pkg_ok of the call,
\* order is the order in which the set typed_vars is iterated.
ScanFileForMemberUsage ==
    /\ pc = "start"
    /\ mode \in {"method", "field"}
    /\ \E patterns \in {build_patterns(fqn, class_name)},
          pkg \in {FilePackage(content)},
          cells \in {StripCells(content)},
          lines \in {SplitLines(content)} :
       \E clean_content \in {TextOf(cells)} :
       \E has \in {HasImportOrFqn(patterns, clean_content)},
          clean_lines \in {SplitLines(clean_content)} :
       \E n \in {MinOf(Len(lines), Len(clean_lines))} :
       \E order \in Orders(TypedVars(class_name, clean_content)) :
       \E trace \in
              {Tuple([k \in 1..n |->
                         Tuple([j \in 1..Len(members) |->
                                   MemberAdds(members[j], mode, class_name, order,
                                              has, clean_lines[k])])])} :
       \E strict \in BOOLEAN, same \in BOOLEAN :
         /\ strict_import' = strict
         /\ same_pkg_ok' = same
         /\ file_package' = pkg
         /\ result' = cells
         /\ has_import_or_fqn' = has
         /\ IF \/ SkipStrict(strict, has)
               \/ SkipScope(same, has, pkg, target_pkg, patterns, clean_content)
            THEN /\ typed_vars' = <<>>
                 /\ line_trace' = <<>>
                 /\ line_hits' = <<>>
                 /\ total_matches' = 0
            ELSE /\ typed_vars' = order
                 /\ line_trace' = trace
                 /\ line_hits' = MemberHits(trace, lines, members, mode, 1)
                 /\ total_matches' = MemberTotal(trace, 1)
    /\ pc' = "done"
    /\ UNCHANGED <<content, mode, members, i, start, ast_vars, run_vars>>

(***************************************************************************)
(* The two scanners as functions of the file's text, for main: what        *)
(* ScanFileForUsage and ScanFileForMemberUsage leave in total_matches,     *)
(* line_hits and file_package.                                             *)
(***************************************************************************)
\* the trace of the class-mode line loop
ClassTrace(patterns, lines, clean_lines, has, pkg, same, tgt_pkg, strict) ==
    Tuple([k \in 1..MinOf(Len(lines), Len(clean_lines)) |->
        With(ImportMatches(patterns, clean_lines[k]), LAMBDA imports :
        With(RawSimpleMatches(patterns, clean_lines[k]), LAMBDA raw :
        With(ScopeFilter(raw, strict, has, same, pkg, tgt_pkg), LAMBDA kept :
            [imports |-> imports, raw |-> raw, simple_name_matches |-> kept,
             line_matches |-> imports + kept])))])

scan_file_for_usage(text, same, tgt_pkg, strict) ==
    With(build_patterns(fqn, class_name), LAMBDA patterns :
    With(TextOf(StripCells(text)), LAMBDA clean_content :
    With(SplitLines(text), LAMBDA lines :
    With(SplitLines(clean_content), LAMBDA clean_lines :
    With(HasImportOrFqn(patterns, clean_content), LAMBDA has :
    With(FilePackage(text), LAMBDA pkg :
    With(ClassTrace(patterns, lines, clean_lines, has, pkg, same, tgt_pkg, strict), LAMBDA trace :
        [matches |-> ClassTotal(trace, 1), hits |-> ClassHits(trace, lines, 1),
         package |-> pkg])))))))

\* the trace of the member-mode line loop
MemberTrace(mems, m, order, has, lines, clean_lines) ==
    Tuple([k \in 1..MinOf(Len(lines), Len(clean_lines)) |->
        Tuple([j \in 1..Len(mems) |->
            MemberAdds(mems[j], m, class_name, order, has, clean_lines[k])])])

\* typed_vars is a set: the candidate files of main declare at most one
\* variable of the target type, so there is one iteration order
scan_file_for_member_usage(text, mems, m, same, tgt_pkg, strict) ==
    With(build_patterns(fqn, class_name), LAMBDA patterns :
    With(TextOf(StripCells(text)), LAMBDA clean_content :
    With(HasImportOrFqn(patterns, clean_content), LAMBDA has :
    With(SplitLines(text), LAMBDA lines :
    With(SplitLines(clean_content), LAMBDA clean_lines :
    With(FilePackage(text), LAMBDA pkg :
        IF \/ SkipStrict(strict, has)
           \/ SkipScope(same, has, pkg, tgt_pkg, patterns, clean_content)
        THEN [matches |-> 0, hits |-> <<>>, package |-> pkg]
        ELSE With(CHOOSE o \in Orders(TypedVars(class_name, clean_content)) : TRUE, LAMBDA order :
             With(MemberTrace(mems, m, order, has, lines, clean_lines), LAMBDA trace :
                 [matches |-> MemberTotal(trace, 1),
                  hits |-> MemberHits(trace, lines, mems, m, 1),
                  package |-> pkg]))))))))

\* the result of the member scan just done, had typed_vars been iterated
\* in the given order (lines 853-880)
MemberResultUnder(order) ==
    With(SplitLines(content), LAMBDA lines :
    With(TextOf(result), LAMBDA clean_content :
    With(SplitLines(clean_content), LAMBDA clean_lines :
    With(MemberTrace(members, mode, order, has_import_or_fqn, lines, clean_lines), LAMBDA trace :
        [matches |-> MemberTotal(trace, 1),
         hits |-> MemberHits(trace, lines, members, mode, 1)]))))

\* main.scan_file on a Kotlin file with the AST engine selected, up to the
\* point where it returns the AST result or goes on to the regex engine
\* (lines 1830-1852)
ScanFileAst ==
    /\ pc = "ast"
    /\ \E strict \in BOOLEAN, same \in BOOLEAN :
       \E r \in {scan_file_ast(tree, class_name, fqn, mode, members, same,
                               target_pkg, strict)} :
         /\ strict_import' = strict
         /\ same_pkg_ok' = same
         /\ ast_result' = r
         /\ IF r.some /\ r.count > 0
            THEN /\ pc' = "done"
                 /\ total_matches' = r.count
                 /\ line_hits' = LegacyHits(mode, r.hits)
                 /\ file_package' = r.package
            ELSE /\ pc' = "regex"
                 /\ UNCHANGED <<total_matches, line_hits, file_package>>
    /\ UNCHANGED <<content, mode, members, i, start, result, has_import_or_fqn,
                   typed_vars, line_trace, tree, run_vars>>

\* main parses the target file (lines 1702-1709): a ValueError ends the
\* run with exit code 2
ParseTargetMetadata ==
    /\ main_pc = "parse_target"
    /\ \E md \in {parse_target_metadata(target)} :
         /\ metadata' = md
         /\ IF md.raised
            THEN main_pc' = "error" /\ exit_code' = 2
            ELSE main_pc' = "parse_members" /\ UNCHANGED exit_code
    /\ UNCHANGED <<mode, members, strict_import, same_pkg_ok, file_vars, arg_vars, available_members, target,
                   engine, ast_engine, max_workers, source_files, futures,
                   results, stats, fi, parser>>

\* the regex engine on a candidate file (lines 1855-1867); a file that
\* cannot be read gives 0, [], None
RegexScan(f, m, same, strict) ==
    IF ~f.readable THEN [matches |-> 0, hits |-> <<>>, package |-> None]
    ELSE IF m = "class" THEN scan_file_for_usage(f.content, same, target_pkg, strict)
    ELSE scan_file_for_member_usage(f.content, MembersOf(m), m, same, target_pkg, strict)

BoolIx(b) == IF b THEN 2 ELSE 1
Bools == <<FALSE, TRUE>>

\* RegexScan of every file of the catalogue, computed once
RegexTable ==
    Tuple([id \in 1..Len(Catalogue) |-> Tuple([m \in 1..Len(RunModes) |->
        Tuple([a \in 1..2 |-> Tuple([b \in 1..2 |->
            RegexScan(Catalogue[id], RunModes[m], Bools[a], Bools[b])])])])])

ModeIx(m) == CHOOSE k \in 1..Len(RunModes) : RunModes[k] = m

RegexOf(f, m, same, strict) == RegexTable[f.id][ModeIx(m)][BoolIx(same)][BoolIx(strict)]

\* the tuple scan_file returns, and None
FileResult(path, count, hits, package) == [some |-> TRUE, path |-> path, count |-> count, hits |-> hits, package |-> package]
NoValue == [some |-> FALSE, path |-> "", count |-> 0, hits |-> <<>>, package |-> None]

\* scan_file without the test of lines 1822-1824
IsTargetFileNever(f, tgt) == FALSE

\* lines 1822-1824
IsTargetFile(f, tgt) == f.resolved = tgt.resolved

\* lines 1827-1828
UseAstEngine(f, eng, has_engine) == eng = "ast" /\ has_engine /\ IsKotlin(f)

\* lines 1838-1848: what scan_file returns after the AST scan, None when
\* it goes on to the regex engine
AstValue(f, m, r) ==
    IF r.some /\ r.count > 0
    THEN FileResult(f.path, r.count, LegacyHits(m, r.hits), r.package)
    ELSE NoValue

\* scan_file without the tests of lines 1861 and 1869
RegexValueUnfiltered(f, r) == FileResult(f.path, r.matches, r.hits, r.package)

\* lines 1861-1872: what scan_file returns after the regex scan
RegexValue(f, r) ==
    IF r.matches > 0 THEN FileResult(f.path, r.matches, r.hits, r.package)
    ELSE NoValue

\* a future: where its task is, what the AST scan of the file did ("no"
\* when the engine did not scan it, "failed" for None, "raised", "empty"
\* for a result of count 0, "hit"), whether the regex engine scanned the
\* file, the count of the last scan, and the task's outcome
Future(state, ast, regex, matches, value, raised) ==
    [state |-> state, ast |-> ast, regex |-> regex, matches |-> matches,
     value |-> value, raised |-> raised]
Submitted == Future("pending", "no", FALSE, -1, NoValue, FALSE)

\* main returning 0 whatever the results
ExitCodeZero(res) == 0

\* line 1940: the exit code of a run that got to its end
ExitCode(res) == IF res # <<>> THEN 0 ELSE 1

\* main validates the root and the extensions (lines 1672-1692): an
\* invalid root or no extension ends the run with exit code 2
ValidateArguments ==
    /\ main_pc = "start"
    /\ \E valid \in BOOLEAN :
         IF valid THEN main_pc' = "parse_target" /\ UNCHANGED exit_code
         ELSE main_pc' = "error" /\ exit_code' = 2
    /\ UNCHANGED <<mode, members, strict_import, same_pkg_ok, file_vars, arg_vars, available_members, target,
                   metadata, engine, ast_engine, max_workers, source_files,
                   futures, results, stats, fi, parser>>

\* main parses the members of the target (lines 1711-1721): an exception
\* ends the run with exit code 2
ParseTargetMembers ==
    /\ main_pc = "parse_members"
    /\ \E raised \in BOOLEAN :
         IF raised
         THEN main_pc' = "error" /\ exit_code' = 2 /\ UNCHANGED available_members
         ELSE \E inventory \in {parse_target_members(target.content, metadata.class_name)} :
                /\ available_members' = inventory
                /\ main_pc' = "engine"
                /\ UNCHANGED exit_code
    /\ UNCHANGED <<mode, members, strict_import, same_pkg_ok, file_vars, arg_vars, target,
                   metadata, engine, ast_engine, max_workers, source_files,
                   futures, results, stats, fi, parser>>

\* main selects the engine (lines 1723-1757) from --engine (None when not
\* given), the suffix of the target and the availability of the parser
SelectEngine ==
    /\ main_pc = "engine"
    /\ \E target_is_kotlin \in {target.suffix \in {".kt", ".kts"}} :
       \E eng \in {IF args_engine # "None" THEN args_engine
                   ELSE IF target_is_kotlin /\ HAS_TREE_SITTER THEN "ast"
                   ELSE "regex"} :
         IF eng = "ast" /\ ~HAS_TREE_SITTER
         THEN \* AST requested and not available, or its constructor raises
              /\ main_pc' = "error"
              /\ exit_code' = 2
              /\ UNCHANGED <<engine, ast_engine>>
         ELSE /\ main_pc' = "mode"
              /\ engine' = eng
              /\ ast_engine' = (eng = "ast")
              /\ UNCHANGED exit_code
    /\ UNCHANGED <<mode, members, strict_import, same_pkg_ok, file_vars, arg_vars, available_members, target,
                   metadata, max_workers, source_files, futures, results, stats,
                   fi, parser>>

\* main determines the mode and the members (lines 1759-1802); an unknown
\* member or a missing --member ends the run with exit code 2
SelectModeAndMembers ==
    /\ main_pc = "mode"
    /\ \E valid \in BOOLEAN :
         IF valid
         THEN /\ main_pc' = "enumerate"
              /\ \E k \in 1..Len(RunModes) :
                   /\ mode' = RunModes[k]
                   /\ members' = MembersOf(RunModes[k])
                   /\ \/ RunModes[k] = "class"
                      \/ Range(MembersOf(RunModes[k])) \subseteq available_members.methods
              /\ strict_import' \in BOOLEAN
              /\ same_pkg_ok' \in BOOLEAN
              /\ max_workers' \in 1..MaxWorkers
              /\ UNCHANGED exit_code
         ELSE /\ main_pc' = "error"
              /\ exit_code' = 2
              /\ UNCHANGED <<mode, members, strict_import, same_pkg_ok, max_workers>>
    /\ UNCHANGED <<file_vars, arg_vars, available_members, target, metadata, engine, ast_engine, source_files,
                   futures, results, stats, fi, parser>>

\* source_files = list(iter_source_files(...)) (line 1813)
IterSourceFiles ==
    /\ main_pc = "enumerate"
    /\ source_files' \in SourceFileLists
    /\ main_pc' = "submit"
    /\ UNCHANGED <<mode, members, strict_import, same_pkg_ok, file_vars, arg_vars, available_members, target,
                   metadata, engine, ast_engine, max_workers, exit_code, futures,
                   results, stats, fi, parser>>

\* executor.submit(scan_file, path) for the next path (line 1890)
Submit ==
    /\ main_pc = "submit"
    /\ IF Len(futures) < Len(source_files)
       THEN futures' = Append(futures, Submitted) /\ UNCHANGED main_pc
       ELSE main_pc' = "collect" /\ UNCHANGED futures
    /\ UNCHANGED <<mode, members, strict_import, same_pkg_ok, file_vars, arg_vars, available_members, target,
                   metadata, engine, ast_engine, max_workers, exit_code,
                   source_files, results, stats, fi, parser>>

\* the tasks a worker is running
Running == {k \in 1..Len(futures) : futures[k].state \in {"ast", "regex"}}

\* what the steps of a task leave alone: all but its future and the parser
TaskFrame ==
    UNCHANGED <<mode, members, strict_import, same_pkg_ok, file_vars, arg_vars, available_members, target,
                metadata, engine, ast_engine, max_workers, exit_code, main_pc,
                source_files, results, stats, fi>>

\* a free worker takes the oldest waiting task and runs scan_file up to
\* the choice of the engine (lines 1822-1830)
TaskStart(k) ==
    /\ futures[k].state = "pending"
    /\ \A j \in 1..(k - 1) : futures[j].state # "pending"
    /\ Cardinality(Running) < max_workers
    /\ \E f \in {source_files[k]} :
         futures' = [futures EXCEPT ![k] =
             IF f.raises THEN Future("done", "no", FALSE, -1, NoValue, TRUE)
             ELSE IF IsTargetFile(f, target) THEN Future("done", "no", FALSE, -1, NoValue, FALSE)
             ELSE IF UseAstEngine(f, engine, ast_engine) THEN Future("ast", "no", FALSE, -1, NoValue, FALSE)
             ELSE Future("regex", "no", FALSE, -1, NoValue, FALSE)]
    /\ UNCHANGED parser
    /\ TaskFrame

\* the task scans its file with the AST engine (lines 1832-1852): the
\* parser parses the file if it can be read
TaskAst(k) ==
    /\ futures[k].state = "ast"
    /\ \E f \in {source_files[k]} :
         /\ parser' = IF f.readable THEN f.path ELSE parser
         /\ IF f.ast_raises
            THEN futures' = [futures EXCEPT ![k] = Future("regex", "raised", FALSE, -1, NoValue, FALSE)]
            ELSE \E r \in {scan_file_ast(f.tree, metadata.class_name, metadata.fqn, mode,
                                         members, same_pkg_ok, metadata.package,
                                         strict_import)} :
                   futures' = [futures EXCEPT ![k] =
                       IF AstValue(f, mode, r).some
                       THEN Future("done", "hit", FALSE, r.count, AstValue(f, mode, r), FALSE)
                       ELSE Future("regex", IF r.some THEN "empty" ELSE "failed",
                                   FALSE, r.count, NoValue, FALSE)]
    /\ TaskFrame

\* the task scans its file with the regex engine (lines 1854-1872)
TaskRegex(k) ==
    /\ futures[k].state = "regex"
    /\ \E f \in {source_files[k]} :
       \E r \in {RegexOf(f, mode, same_pkg_ok, strict_import)} :
         futures' = [futures EXCEPT ![k] =
             Future("done", futures[k].ast, TRUE, r.matches, RegexValue(f, r), FALSE)]
    /\ UNCHANGED parser
    /\ TaskFrame

\* one step of one task of the pool
TaskStep == \E k \in 1..Len(futures) : TaskStart(k) \/ TaskAst(k) \/ TaskRegex(k)

\* a collector that puts a result in front of the list instead of
\* appending it (line 1898)
CollectedInFront(fut, res, st, eng) ==
    IF fut.raised
    THEN [results |-> res,
          stats |-> [st EXCEPT !.files_with_errors = @ + 1], propagates |-> FALSE]
    ELSE [results |-> IF fut.value.some THEN <<fut.value>> \o res ELSE res,
          stats |-> [st EXCEPT !.files_scanned = @ + 1], propagates |-> FALSE]

\* a collector that does not count the futures that raised (line 1910)
CollectedUncounted(fut, res, st, eng) ==
    IF fut.raised
    THEN [results |-> res, stats |-> st, propagates |-> FALSE]
    ELSE [results |-> IF fut.value.some THEN Append(res, fut.value) ELSE res,
          stats |-> [st EXCEPT !.files_scanned = @ + 1], propagates |-> FALSE]

\* the collector without the except clause of lines 1909-1912: the
\* exception of a task propagates out of main
CollectedNoExcept(fut, res, st, eng) ==
    IF fut.raised
    THEN [results |-> res, stats |-> st, propagates |-> TRUE]
    ELSE [results |-> IF fut.value.some THEN Append(res, fut.value) ELSE res,
          stats |-> [st EXCEPT !.files_scanned = @ + 1], propagates |-> FALSE]

\* what the collector does with a finished future (lines 1893-1912);
\* propagates tells whether future.result() raises out of the loop
Collected(fut, res, st, eng) ==
    IF fut.raised
    THEN [results |-> res,
          stats |-> [st EXCEPT !.files_with_errors = @ + 1], propagates |-> FALSE]
    ELSE IF ~fut.value.some
    THEN [results |-> res,
          stats |-> [st EXCEPT !.files_scanned = @ + 1], propagates |-> FALSE]
    ELSE [results |-> Append(res, fut.value),
          stats |-> IF IsKotlin(FileOfPath(fut.value.path)) /\ eng = "ast"
                    THEN [st EXCEPT !.files_scanned = @ + 1, !.ast_files = @ + 1]
                    ELSE [st EXCEPT !.files_scanned = @ + 1, !.regex_files = @ + 1],
          propagates |-> FALSE]

\* the collector takes the result of the next future, once it is there;
\* an exception that leaves the loop ends the program with status 1
Collect ==
    /\ main_pc = "collect"
    /\ fi < Len(futures)
    /\ futures[fi + 1].state = "done"
    /\ \E c \in {Collected(futures[fi + 1], results, stats, engine)} :
         /\ results' = c.results
         /\ stats' = c.stats
         /\ IF c.propagates
            THEN main_pc' = "crash" /\ exit_code' = 1 /\ UNCHANGED fi
            ELSE fi' = fi + 1 /\ UNCHANGED <<main_pc, exit_code>>
    /\ UNCHANGED <<mode, members, strict_import, same_pkg_ok, file_vars, arg_vars, available_members, target,
                   metadata, engine, ast_engine, max_workers, source_files,
                   futures, parser>>

\* the loop is over: main prints the results and returns (line 1940)
Finish ==
    /\ main_pc = "collect"
    /\ fi = Len(futures)
    /\ main_pc' = "exit"
    /\ exit_code' = ExitCode(results)
    /\ UNCHANGED <<mode, members, strict_import, same_pkg_ok, file_vars, arg_vars, available_members, target,
                   metadata, engine, ast_engine, max_workers, source_files,
                   futures, results, stats, fi, parser>>


\* one iteration of the loop of iter_source_files (lines 888-905): os.walk
\* gives the next directory, its ignored subdirectories are removed from
\* dirnames, which os.walk visits next, and its files with a scanned
\* extension that are not ignored are yielded
WalkDirectory ==
    /\ walk_pc = "walk"
    /\ pending # <<>>
    /\ \E current_dir \in {Head(pending)} :
       \E dirnames \in {KeptDirnames(root, tree_files, current_dir, HAS_PATHSPEC, gitignore)},
          files \in {YieldedOf(root, tree_files, current_dir, HAS_PATHSPEC, gitignore)} :
       \E next \in {Tuple([k \in 1..Len(dirnames) |-> current_dir \o <<dirnames[k]>>])
                        \o Tail(pending)} :
         /\ pending' = next
         /\ yielded' = yielded \o files
         /\ walk_pc' = (IF next = <<>> THEN "done" ELSE "walk")
    /\ UNCHANGED <<content, mode, members, strict_import, same_pkg_ok, pc, i, start,
                   result, scan_locals, ast_vars, main_pc, exit_code, target, metadata,
                   engine, ast_engine, max_workers, source_files, futures, results,
                   stats, fi, parser, args_engine, HAS_TREE_SITTER, available_members,
                   root, tree_files, HAS_PATHSPEC, gitignore>>

\* the steps of a run of main and of the tasks of its pool
NextRun ==
    \/ ValidateArguments \/ ParseTargetMetadata \/ ParseTargetMembers
    \/ SelectEngine \/ SelectModeAndMembers \/ IterSourceFiles \/ Submit
    \/ TaskStep \/ Collect \/ Finish

Next ==
    \/ StripStep \/ StripReturn \/ ScanFileForUsage \/ ScanFileForMemberUsage
    \/ ScanFileAst
    \/ ParseTargetMetadata
    \/ WalkDirectory
    \/ NextRun

\* every operation, from every input
Spec == Init /\ [][Next]_vars

\* the preprocessor on its own
SpecStrip == InitStrip /\ [][StripStep \/ StripReturn]_vars

\* strip_comments_and_strings run by a thread that goes on executing: the
\* next iteration, or the return, is taken when it can be
SpecStripLive ==
    InitStripLive /\ [][StripStep \/ StripReturn]_vars
              /\ WF_vars(StripStep) /\ WF_vars(StripReturn)

\* one class-mode scan
SpecClass == InitClass /\ [][ScanFileForUsage]_vars

\* one method-mode or field-mode scan
SpecMember == InitMember /\ [][ScanFileForMemberUsage]_vars

\* scan_file_for_member_usage on a file that declares variables of the
\* target type
SpecTyped == InitTyped /\ [][ScanFileForMemberUsage]_vars

\* one scan of one file of a user of the target
SpecUser == InitUser /\ [][ScanFileForUsage \/ ScanFileForMemberUsage]_vars

\* one scan of one candidate file, in any mode
SpecScan ==
    (InitClass \/ InitMember)
        /\ [][ScanFileForUsage \/ ScanFileForMemberUsage]_vars

\* the AST engine on one Kotlin candidate file
SpecAst == InitAst /\ [][ScanFileAst]_vars

\* the target file's metadata
SpecTarget == InitTarget /\ [][ParseTargetMetadata]_vars

\* main from the parsing of the target to its inventory of members
SpecMembers == InitMembers /\ [][ParseTargetMetadata \/ ParseTargetMembers]_vars

\* the enumeration of the candidate files
SpecWalk == InitWalk /\ [][WalkDirectory]_vars

\* a run of main
SpecRun == InitRun /\ [][NextRun]_vars

\* a run of main for every way of selecting the engine
SpecEngine == InitEngine /\ [][NextRun]_vars

(***************************************************************************)
(* Lexical regions.  The preprocessor's contract describes a single-pass   *)
(* scan over the states Code, LineComment, BlockComment, DoubleQuoted and  *)
(* SingleQuoted.  LexKinds gives, for every position of a text, the state  *)
(* the position belongs to: the delimiters belong to their construct, the  *)
(* line break that ends a line comment is code, and a construct that is    *)
(* not closed runs to the end of the text.                                 *)
(***************************************************************************)
RECURSIVE LexKinds(_, _, _)
LexKinds(code, k, st) ==
    IF k > Len(code) THEN <<>>
    ELSE CASE st = "code" ->
                IF k < Len(code) /\ code[k] = "/" /\ code[k + 1] = "/"
                THEN <<"line_comment", "line_comment">>
                         \o LexKinds(code, k + 2, "line_comment")
                ELSE IF k < Len(code) /\ code[k] = "/" /\ code[k + 1] = "*"
                THEN <<"block_comment", "block_comment">>
                         \o LexKinds(code, k + 2, "block_comment")
                ELSE IF code[k] = DQ
                THEN <<"double_quoted">> \o LexKinds(code, k + 1, "double_quoted")
                ELSE IF code[k] = SQ
                THEN <<"single_quoted">> \o LexKinds(code, k + 1, "single_quoted")
                ELSE <<"code">> \o LexKinds(code, k + 1, "code")
           [] st = "line_comment" ->
                IF code[k] = NL
                THEN <<"code">> \o LexKinds(code, k + 1, "code")
                ELSE <<st>> \o LexKinds(code, k + 1, st)
           [] st = "block_comment" ->
                IF k < Len(code) /\ code[k] = "*" /\ code[k + 1] = "/"
                THEN <<st, st>> \o LexKinds(code, k + 2, "code")
                ELSE <<st>> \o LexKinds(code, k + 1, st)
           [] OTHER ->
                \* DoubleQuoted and SingleQuoted
                IF code[k] = BS /\ k < Len(code)
                THEN <<st, st>> \o LexKinds(code, k + 2, st)
                ELSE IF code[k] = (IF st = "double_quoted" THEN DQ ELSE SQ)
                THEN <<st>> \o LexKinds(code, k + 1, "code")
                ELSE <<st>> \o LexKinds(code, k + 1, st)

\* the positions of a text that lie inside a comment or a literal
Inside(code) ==
    With(LexKinds(code, 1, "code"), LAMBDA kinds :
        {k \in 1..Len(code) : kinds[k] # "code"})

\* the positions of a text that lie inside a line comment
InsideLineComment(code) ==
    With(LexKinds(code, 1, "code"), LAMBDA kinds :
        {k \in 1..Len(code) : kinds[k] = "line_comment"})

\* the number of line breaks of a text
LineBreaks(text) == Cardinality({k \in 1..Len(text) : text[k] = NL})

\* the 1-based number of the line that position p of a text is on
LineOf(text, p) == 1 + Cardinality({k \in 1..(p - 1) : text[k] = NL})

\* the positions of line n of a text (without its line break)
OnLine(text, n) == {p \in 1..Len(text) : text[p] # NL /\ LineOf(text, p) = n}

\* the positions at which name occurs in text
Occurrences(name, text) ==
    {p \in 1..(Len(text) - Len(name) + 1) :
        \A k \in 1..Len(name) : text[p + k - 1] = name[k]}

\* the neutralized text the scanners work on, as lines of cells
CleanCellLines == SplitCells(result)

\* the file has no match of an import or fully-qualified category
\* (import_fqn, import_class, direct_fqn) outside comments and literals
NoImportOrFqn ==
    With(TextOf(result), LAMBDA clean :
        \A k \in 1..Len(ImportCategories) :
            ~Search(build_patterns(fqn, class_name)[ImportCategories[k]], clean))

(***************************************************************************)
(* The scope filter                                                        *)
(***************************************************************************)
\* the decision table's rows that do not retain a simple-name match
TableZeroes ==
    \/ strict_import /\ ~has_import_or_fqn
    \/ ~strict_import /\ ~has_import_or_fqn /\ ~same_pkg_ok
           /\ file_package # target_pkg

\* C1: in class mode, on every line with at least one simple-name-category
\* match, the simple-name count is 0 in exactly the rows of the decision
\* table that do not retain (strict import without import/FQN; or no strict
\* import, no import/FQN, same_pkg_ok off and a different package) and is
\* the raw count in every other row.
C1_ScopeDecisionTable ==
    (mode = "class" /\ pc = "done") =>
        \A k \in 1..Len(line_trace) :
            line_trace[k].raw > 0 =>
                line_trace[k].simple_name_matches =
                    (IF TableZeroes THEN 0 ELSE line_trace[k].raw)

\* C1: a file of the target's package without import, scanned with
\* strict_import and same_pkg_ok both off, keeps the simple-name matches
\* of a line
C1_SamePackageKept ==
    /\ mode = "class" /\ pc = "done"
    /\ ~strict_import /\ ~same_pkg_ok /\ ~has_import_or_fqn
    /\ file_package = target_pkg
    /\ \E k \in 1..Len(line_trace) :
           /\ line_trace[k].raw > 0
           /\ line_trace[k].simple_name_matches = line_trace[k].raw

DeclaresLocalClass(clean) ==
    Search(Cat(<<WordB, Lit(kw_class), Sp1, Lit(class_name), WordB>>), clean)

\* the line mentions the method, and every mention is its declaration
DeclarationOnly(member_name, clean_line) ==
    With(Len(FindAll(Cat(<<WordB, Lit(member_name), WordB>>), clean_line)),
         LAMBDA mentions :
        /\ mentions > 0
        /\ mentions =
               Len(FindAll(Cat(<<WordB, Lit(kw_fun), Sp1, Lit(member_name), Sp0,
                                 Ch("(")>>), clean_line)))

\* C3: in method mode, a file without import/FQN, in another package than
\* the target's, that declares its own class with the target's simple
\* name, gets no match from a line that only declares a method with the
\* selected name (same_pkg_ok off, strict_import on or off).
C3_LocalDeclarationNotAttributed ==
    (mode = "method" /\ pc = "done" /\ ~same_pkg_ok /\ NoImportOrFqn
         /\ file_package # target_pkg /\ DeclaresLocalClass(TextOf(result))) =>
        \A k \in 1..Len(line_trace) : \A j \in 1..Len(members) :
            DeclarationOnly(members[j], TextOf(CleanCellLines[k])) =>
                SumAdds(line_trace[k][j], 1) = 0

\* the receiver of an access to the member on the line is a variable
\* collected as typed with the class
ReceiverTyped(member_name, clean, clean_line) ==
    \E v \in TypedVars(class_name, clean) :
        Search(QualifiedPattern(v, member_name), clean_line)

\* C4: in field mode, a dot_access or this_access match adds to the count
\* only if the receiver on the line is a variable collected as typed with
\* the class, or the access is written ClassName.member, or the file has
\* an import/FQN match.
C4_AccessNeedsConfirmation ==
    (mode = "field" /\ pc = "done") =>
        With(TextOf(result), LAMBDA clean :
            \A k \in 1..Len(line_trace) : \A j \in 1..Len(members) :
                \A x \in 1..Len(line_trace[k][j]) :
                    (/\ line_trace[k][j][x].name \in {"dot_access", "this_access"}
                     /\ line_trace[k][j][x].n > 0) =>
                        \/ ReceiverTyped(members[j], clean, TextOf(CleanCellLines[k]))
                        \/ Search(StaticPattern(class_name, members[j]),
                                  TextOf(CleanCellLines[k]))
                        \/ ~NoImportOrFqn)

(***************************************************************************)
(* Comments and literals                                                   *)
(***************************************************************************)
\* line n of the text is not blank and consists solely of comment or
\* literal, and holds the name
CommentOrLiteralLine(text, n, name) ==
    With(Inside(text), LAMBDA ins :
        With(OnLine(text, n), LAMBDA on :
            /\ \E p \in on : text[p] \notin Space
            /\ \A p \in on : text[p] \in Space \/ p \in ins
            /\ \E p \in Occurrences(name, text) : p \in on))

\* every mention of the name in the text is inside a line comment
OnlyInLineComments(text, name) ==
    With(InsideLineComment(text), LAMBDA ins :
        With(Occurrences(name, text), LAMBDA occ :
            /\ occ # {}
            /\ \A p \in occ : \A k \in 0..(Len(name) - 1) : (p + k) \in ins))

\* C5: in class mode no hit is reported on a line of the original file
\* that consists solely of a comment or literal holding the class's simple
\* name, wherever the line sits; in method mode a file whose only mentions
\* of the selected method are inside line comments has no match.
C5_CommentLiteralImmunity ==
    /\ (mode = "class" /\ pc = "done") =>
           \A h \in 1..Len(line_hits) :
               ~CommentOrLiteralLine(content, line_hits[h].line, class_name)
    /\ (mode = "method" /\ pc = "done"
            /\ \A j \in 1..Len(members) : OnlyInLineComments(content, members[j])) =>
           total_matches = 0

\* C6: the output of strip_comments_and_strings has as many line breaks as
\* its input: every line break of the input is kept, also inside block
\* comments and literals.
C6_LineBreaksKept ==
    (mode = "strip" /\ pc = "done") =>
        LineBreaks(TextOf(result)) = LineBreaks(content)

\* the patterns whose matches were counted on scanned line k
CountedPatterns(k) ==
    IF mode = "class"
    THEN {build_patterns(fqn, class_name)[ImportCategories[x]] :
              x \in 1..Len(ImportCategories)}
             \cup (IF line_trace[k].simple_name_matches > 0
                   THEN {build_patterns(fqn, class_name)[SimpleCategories[x]] :
                             x \in 1..Len(SimpleCategories)}
                   ELSE {})
    ELSE UNION {{build_member_patterns(members[j], mode)[x].re :
                    x \in {y \in 1..Len(line_trace[k][j]) : line_trace[k][j][y].n > 0}} :
                j \in 1..Len(members)}

\* every character of the span sp of the neutralized line cl that was
\* copied from the file was copied from line n of the file
SpanOnLine(cl, sp, n) ==
    \A x \in sp.from..(sp.to - 1) :
        cl[x].src # 0 => LineOf(content, cl[x].src) = n

\* C7: every hit with line number n carries the stripped text of line n of
\* the original file as snippet, and every match counted for it lies in
\* characters of that same line n of the original file.
C7_HitLiesOnItsLine ==
    (mode \in {"class", "method", "field"} /\ pc = "done") =>
        With(SplitLines(content), LAMBDA lines :
            \A h \in 1..Len(line_hits) :
                With(line_hits[h].line, LAMBDA n :
                    /\ line_hits[h].snippet = Strip(lines[n])
                    /\ \A r \in CountedPatterns(n) :
                           With(FindAll(r, TextOf(CleanCellLines[n])), LAMBDA found :
                               \A s \in 1..Len(found) :
                                   SpanOnLine(CleanCellLines[n], found[s], n))))

\* C8: two code characters that a removed comment or literal separates in
\* the input are never next to each other in the output of
\* strip_comments_and_strings: two neighbouring code characters of the
\* output were neighbours in the input.
C8_FragmentsNeverJoined ==
    (mode = "strip" /\ pc = "done") =>
        With(Inside(content), LAMBDA ins :
            \A k \in 1..(Len(result) - 1) :
                (/\ result[k].src # 0 /\ result[k + 1].src # 0
                 /\ result[k].ch \notin Space /\ result[k + 1].ch \notin Space
                 /\ result[k].src \notin ins /\ result[k + 1].src \notin ins) =>
                    result[k + 1].src = result[k].src + 1)

\* C9: no character of the input that lies inside a comment or a literal,
\* closed or still open at the end of the input, is copied to the output
\* of strip_comments_and_strings, line breaks excepted.
C9_NothingInsideSurvives ==
    (mode = "strip" /\ pc = "done") =>
        With(Inside(content), LAMBDA ins :
            \A k \in 1..Len(result) :
                (result[k].src # 0 /\ result[k].ch # NL) => result[k].src \notin ins)

RECURSIVE BackslashRun(_, _, _)
\* the number of consecutive backslashes that end at position k, none of
\* them before position lo
BackslashRun(code, lo, k) ==
    IF k >= lo /\ code[k] = BS THEN 1 + BackslashRun(code, lo, k - 1) ELSE 0

\* the quotes after the opening quote at position s that are not escaped:
\* those preceded by an even number of backslashes
UnescapedQuotes(code, s) ==
    {k \in (s + 1)..Len(code) :
        code[k] = code[s] /\ BackslashRun(code, s + 1, k - 1) % 2 = 0}

\* the last iteration of the outer loop began at a quote
LiteralJustScanned ==
    /\ mode = "strip"
    /\ start > 0
    /\ StripBranch(content, start) \in {"double_quoted", "single_quoted"}

\* C10: the scan of a literal ends right after the first quote of its kind
\* that is not escaped by a backslash (at the end of the input if there is
\* none); all of the literal is removed and one blank stands for it.
C10_LiteralEndsAtUnescapedQuote ==
    LiteralJustScanned =>
        /\ i = (IF UnescapedQuotes(content, start) = {}
                THEN Len(content) + 1
                ELSE Min(UnescapedQuotes(content, start)) + 1)
        /\ result # <<>>
        /\ result[Len(result)] = Cell(SP, 0)
        /\ \A k \in 1..Len(result) : result[k].src < start

\* C10: a literal that holds an escaped quote has been scanned up to its
\* closing quote
C10_EscapedQuoteInside ==
    /\ LiteralJustScanned
    /\ start + 3 <= Len(content)
    /\ content[start + 1] = BS
    /\ content[start + 2] = content[start]
    /\ content[start + 3] = content[start]
    /\ i = start + 4

(***************************************************************************)
(* Counts and hit lists of one file's result                               *)
(***************************************************************************)
\* what scanned line k added to total_matches for the name (the class in
\* class mode, member j in member mode)
LineCount(k, j) ==
    IF mode = "class" THEN line_trace[k].line_matches
    ELSE SumAdds(line_trace[k][j], 1)

\* the names whose matches a scan counts
CountedNames == IF mode = "class" THEN <<class_name>> ELSE members

\* C11: the file's total is the sum over the lines of the retained counts
\* of all categories, and no occurrence of the name is counted more than
\* once: a line adds at most as many matches for a name as the name has
\* occurrences on the neutralized line.
C11_CountComposition ==
    (mode \in {"class", "method", "field"} /\ pc = "done") =>
        /\ total_matches =
               (IF mode = "class" THEN ClassTotal(line_trace, 1)
                ELSE MemberTotal(line_trace, 1))
        /\ \A k \in 1..Len(line_trace) : \A j \in 1..Len(CountedNames) :
               LineCount(k, j) <=
                   Cardinality(Occurrences(CountedNames[j],
                                           TextOf(CleanCellLines[k])))

\* C12: in every per-file result the total equals the number of hit
\* records of the hits list.
C12_TotalIsNumberOfHits ==
    (mode \in {"class", "method", "field"} /\ pc = "done") =>
        total_matches = Len(line_hits)

\* C13: the hits list of a per-file result is ordered by ascending line
\* number: a hit never precedes a hit that has a smaller line number.
C13_HitsAscendByLine ==
    pc = "done" =>
        \A a, b \in 1..Len(line_hits) :
            a < b => line_hits[a].line <= line_hits[b].line

(***************************************************************************)
(* The target's metadata                                                   *)
(***************************************************************************)
\* the declarations of the target file, whatever pattern found them
DeclarationSpans == {ClassDeclarations(target.content, 1)[k] : k \in 1..Len(ClassDeclarations(target.content, 1))}

DeclaredName(d) == SubSeq(target.content, d.from, d.to - 1)

\* the name of the declaration that appears first in the file
FirstDeclaredName == DeclaredName(CHOOSE d \in DeclarationSpans : \A e \in DeclarationSpans : d.from <= e.from)

\* C20: among the declarations found in the target file
\* parse_target_metadata chooses the one named as the file's base name;
\* when none has that name it chooses the one that appears first in the
\* file, whatever kinds of declaration the file contains.
C20_StemElseFirstDeclared ==
    (main_pc = "parse_members" /\ DeclarationSpans # {}) =>
        metadata.class_name =
            (IF \E d \in DeclarationSpans : DeclaredName(d) = target.stem
             THEN target.stem ELSE FirstDeclaredName)

(***************************************************************************)
(* Runs of main                                                            *)
(***************************************************************************)
\* the entries of results for a path
EntriesOf(path) == {j \in 1..Len(results) : results[j].path = path}

\* C14: every entry of the results list has a count of at least 1, and a
\* scanned file with zero surviving matches contributes no entry.
C14_OnlyFilesWithMatches ==
    /\ \A j \in 1..Len(results) : results[j].count >= 1
    /\ \A k \in 1..fi :
           futures[k].matches = 0 => EntriesOf(source_files[k].path) = {}

\* a run is over in which a file was scanned and had no match, and
\* another file is in the results
C14_ZeroMatchFileLeftOut ==
    /\ main_pc = "exit"
    /\ results # <<>>
    /\ \E k \in 1..fi : futures[k].matches = 0 /\ futures[k].regex

\* C15: the target file never appears in the results: a candidate whose
\* resolved path is the resolved path of the target is skipped, neither
\* engine scans it.
C15_TargetFileSkipped ==
    /\ \A j \in 1..Len(results) :
           FileOfPath(results[j].path).resolved # target.resolved
    /\ \A k \in 1..Len(futures) :
           source_files[k].resolved = target.resolved =>
               /\ futures[k].state \in {"pending", "done"}
               /\ futures[k].ast = "no"
               /\ ~futures[k].regex
               /\ ~futures[k].value.some

\* a run is over in which a link to the target file was a candidate, and
\* another file is in the results
C15_TargetAmongCandidates ==
    /\ main_pc = "exit"
    /\ results # <<>>
    /\ \E k \in 1..Len(source_files) :
           /\ source_files[k].resolved = target.resolved
           /\ source_files[k].path # target.resolved

\* a candidate whose scan fails: it cannot be read, or its task raises
Fails(f) == ~f.readable \/ f.raises

\* the candidates whose scan does not fail, in the order of source_files
Sound(files) == SelectSeq(files, LAMBDA f : ~Fails(f))

\* what scan_file returns for a file under the arguments of the run,
\* whatever the other candidates are (lines 1821-1872)
ScannedAlone(f) ==
    IF f.resolved = target.resolved THEN NoValue
    ELSE With(IF engine = "ast" /\ ast_engine /\ f.suffix = ".kt" /\ ~f.ast_raises
              THEN AstValue(f, mode, scan_file_ast(f.tree, metadata.class_name,
                       metadata.fqn, mode, members, same_pkg_ok,
                       metadata.package, strict_import))
              ELSE NoValue,
              LAMBDA v : IF v.some THEN v
                         ELSE RegexValue(f, RegexOf(f, mode, same_pkg_ok, strict_import)))

\* the values that are not None, in order
RECURSIVE ValuesOf(_)
ValuesOf(files) ==
    IF files = <<>> THEN <<>>
    ELSE With(ScannedAlone(Head(files)),
              LAMBDA v : (IF v.some THEN <<v>> ELSE <<>>) \o ValuesOf(Tail(files)))

\* C16: a failure while scanning one candidate (it cannot be read, or its
\* task raises) never aborts the run: the failing file contributes no
\* result, every task runs to its end, and the results of the other
\* candidates are collected as they are without the failure.
C16_FailureIsolated ==
    /\ main_pc # "crash"
    /\ main_pc \in {"submit", "collect", "exit"} =>
           /\ results = ValuesOf(Sound(SubSeq(source_files, 1, fi)))
           /\ \A k \in 1..Len(source_files) :
                  Fails(source_files[k]) => EntriesOf(source_files[k].path) = {}
    /\ main_pc = "exit" =>
           /\ fi = Len(source_files)
           /\ \A k \in 1..Len(futures) : futures[k].state = "done"
           /\ stats.files_scanned + stats.files_with_errors = Len(source_files)
           /\ exit_code \in {0, 1}

\* a run is over in which the task of the first candidate raised and a
\* later candidate is in the results
C16_RaisedThenCollected ==
    /\ main_pc = "exit"
    /\ Len(futures) = 2
    /\ futures[1].raised
    /\ futures[2].value.some
    /\ results = <<futures[2].value>>

\* the futures of the Kotlin candidates that the AST engine is to scan
AstCandidates ==
    {k \in 1..Len(futures) :
        /\ engine = "ast" /\ ast_engine
        /\ source_files[k].suffix = ".kt"
        /\ source_files[k].resolved # target.resolved
        /\ ~source_files[k].raises}

\* C17: with the AST engine selected, a Kotlin candidate is handed to the
\* regex engine only when the AST scan of that very file failed (the file
\* could not be read or parsed, or the scan raised); a file the AST engine
\* scanned successfully is not scanned again by the regex engine.
C17_RegexOnlyAfterAstFailure ==
    \A k \in AstCandidates :
        futures[k].regex \/ futures[k].state = "regex" =>
            futures[k].ast \in {"failed", "raised"}

\* C17 (what the code does): a Kotlin candidate goes to the regex engine
\* exactly when the AST scan gave no result with a count above 0, and
\* the engine of the run is the same for every candidate.
C17_RegexWhenAstHasNoMatch ==
    \A k \in AstCandidates :
        /\ futures[k].regex => futures[k].ast \in {"failed", "raised", "empty"}
        /\ futures[k].ast = "hit" => ~futures[k].regex /\ futures[k].state = "done"
        /\ futures[k].state = "done" => futures[k].ast # "no"

\* a file that the AST engine scanned without a failure, with no hit, has
\* been scanned by the regex engine, which found matches
C17_ScannedTwice ==
    \E k \in AstCandidates :
        /\ futures[k].ast = "empty"
        /\ futures[k].regex
        /\ futures[k].value.some

C18_TasksWriteOnlyTheParser ==
    [][TaskStep => UNCHANGED <<target, metadata, mode, members, strict_import,
                               same_pkg_ok, engine, ast_engine, source_files,
                               results, stats, fi>>]_vars

\* C18 (what the code does): with every parse done in one step, the
\* outcome of a finished task is that of scan_file on its file alone,
\* whatever the number of workers and the order of the steps.
C18_OutcomeIndependentOfInterleaving ==
    \A k \in 1..Len(futures) :
        futures[k].state = "done" =>
            /\ futures[k].raised = source_files[k].raises
            /\ ~futures[k].raised => futures[k].value = ScannedAlone(source_files[k])

\* two tasks run at the same time, one of them has used the parser and
\* the other is about to
C18_TwoTasksOneParser ==
    \E j, k \in Running :
        /\ j # k
        /\ futures[j].state = "regex" /\ futures[j].ast # "no"
        /\ futures[k].state = "ast"
        /\ parser = source_files[j].path

\* C19: if no declaration is found in the target file the run fails with
\* exit code 2 before any candidate is enumerated or scanned; a scan that
\* completed with no match in any file ends with exit code 1; the exit
\* code is 0 exactly when the results list is not empty.
C19_ExitCodes ==
    /\ metadata.raised =>
           /\ main_pc = "error" /\ exit_code = 2
           /\ source_files = <<>> /\ futures = <<>> /\ results = <<>>
           /\ stats.files_scanned = 0 /\ stats.files_with_errors = 0
    /\ main_pc = "error" => exit_code = 2 /\ source_files = <<>> /\ futures = <<>>
    /\ main_pc = "exit" /\ results = <<>> => exit_code = 1
    /\ main_pc \in {"exit", "error"} => (exit_code = 0 <=> results # <<>>)
    /\ main_pc \notin {"exit", "error"} => exit_code = -1

\* a scan of candidates that were scanned by an engine is over with no
\* match in any of them
C19_CompletedWithoutMatch ==
    /\ main_pc = "exit"
    /\ exit_code = 1
    /\ Len(source_files) = MaxFiles
    /\ \A k \in 1..Len(futures) : futures[k].regex /\ futures[k].matches = 0

\* the run has failed on a target file that declares an object only
C19_TargetWithoutDeclaration ==
    /\ metadata.raised
    /\ main_pc = "error"
    /\ target.resolved = "O.kt"

\* the position of a path among the candidates (0 if it is none of them)
PositionOf(path) ==
    IF \E k \in 1..Len(source_files) : source_files[k].path = path
    THEN CHOOSE k \in 1..Len(source_files) : source_files[k].path = path
    ELSE 0

\* C27: the results list is in the order in which the candidates were
\* enumerated and submitted, whatever order the tasks start or finish in,
\* and only the collector appends to the list: no step of a task
\* changes it.
C27_ResultsInSubmissionOrder ==
    /\ [](\A j \in 1..Len(results) :
            /\ PositionOf(results[j].path) \in 1..fi
            /\ \A h \in 1..(j - 1) :
                   PositionOf(results[h].path) < PositionOf(results[j].path))
    /\ [][results' # results => results' = Append(results, futures[fi + 1].value)]_vars
    /\ [][TaskStep => UNCHANGED <<results, fi>>]_vars

\* a run is over with the results of two files of which the second was
\* parsed, and so its task finished, before the first
C27_SecondFinishedFirst ==
    /\ main_pc = "exit"
    /\ Len(results) = 2
    /\ futures[1].ast = "hit" /\ futures[2].ast = "hit"
    /\ parser = source_files[1].path
    /\ results = <<futures[1].value, futures[2].value>>

\* C28: while the results are collected each future is taken exactly once, in
\* turn, and files_scanned + files_with_errors is the number of futures
\* taken so far; at the end of the run the sum is the number of
\* candidates, there are at most files_scanned result entries and no path
\* occurs twice in the results.
C28_CollectorCounts ==
    /\ [](/\ fi \in 0..Len(futures)
          /\ stats.files_scanned + stats.files_with_errors = fi
          /\ stats.files_with_errors = Cardinality({k \in 1..fi : futures[k].raised})
          /\ Len(results) <= stats.files_scanned
          /\ stats.ast_files + stats.regex_files = Len(results)
          /\ \A j, h \in 1..Len(results) : results[j].path = results[h].path => j = h
          /\ main_pc = "exit" => fi = Len(source_files) /\ fi = Len(futures))
    /\ [][fi' # fi => fi' = fi + 1 /\ futures[fi'].state = "done"
                       /\ futures' = futures]_vars

\* a run is over in which one future raised and the other gave a result
C28_OneErrorOneResult ==
    /\ main_pc = "exit"
    /\ stats.files_with_errors = 1
    /\ stats.files_scanned = 1
    /\ Len(results) = 1

\* C29: strip_comments_and_strings terminates on every input, also with
\* an unterminated comment or literal or a trailing backslash: the scan
\* index grows on every iteration of the outer loop and never passes the
\* end of the input, and the output is never longer than the part of the
\* input scanned so far.
C29_StripTerminates ==
    /\ [](/\ i \in 1..(Len(content) + 1)
          /\ Len(result) <= i - 1
          /\ pc = "done" => i = Len(content) + 1 /\ Len(result) <= Len(content))
    /\ [][StripStep => i' > i]_vars
    /\ [][i' >= i]_vars
    /\ <>(pc = "done")

\* the function has returned on an unterminated literal that ends with a
\* backslash
C29_ReturnedAfterTrailingBackslash ==
    /\ pc = "done"
    /\ content = <<DQ, "a", BS>>
    /\ TextOf(result) = <<SP>>

\* the scan is over and went through its line loop with variables of
\* the target type
TypedScanDone ==
    pc = "done" /\ mode \in {"method", "field"} /\ typed_vars # <<>>

\* the names in typed_vars
TypedNames == {typed_vars[k] : k \in 1..Len(typed_vars)}

\* C23: scanning the same unchanged file again with the same target,
\* mode, members and flags returns the same count and the same hits in
\* the same order, in whatever order the scan iterates the collected
\* typed-variable names.
C23_SameResultInAnyOrder ==
    TypedScanDone =>
        \A order \in Orders(TypedNames) :
            MemberResultUnder(order) = [matches |-> total_matches, hits |-> line_hits]

\* C23 (what the code does): the hit list is the same in every order of
\* iteration; the count is not.
C23_SameHitsInAnyOrder ==
    TypedScanDone =>
        \A order \in Orders(TypedNames) : MemberResultUnder(order).hits = line_hits

\* a scan whose count is that of one order of iteration and not that of
\* another
C23_CountDependsOnOrder ==
    /\ TypedScanDone
    /\ \E order \in Orders(TypedNames) :
           MemberResultUnder(order).matches # total_matches

\* the finished tasks of the candidates that scan_file does not skip
ScannedCandidates ==
    {k \in 1..Len(futures) :
        /\ futures[k].state = "done"
        /\ ~futures[k].raised
        /\ source_files[k].resolved # target.resolved}

\* C25: when --engine is not given and the parser library is available,
\* the engine is chosen by the kind of each candidate file: every Kotlin
\* candidate is scanned with the AST engine and every Java candidate
\* with the regex engine, whatever the extension of the target file.
C25_EngineByCandidateKind ==
    args_engine = "None" /\ HAS_TREE_SITTER =>
        \A k \in ScannedCandidates :
            IF source_files[k].suffix \in {".kt", ".kts"}
            THEN futures[k].ast # "no"
            ELSE futures[k].ast = "no" /\ futures[k].regex

\* C25 (what the code does): that choice is made only when the target
\* file is a Kotlin file; with a Java target every candidate is scanned
\* with the regex engine.
C25_EngineByTargetKind ==
    args_engine = "None" /\ HAS_TREE_SITTER =>
        \A k \in ScannedCandidates :
            IF target.suffix \in {".kt", ".kts"} /\ source_files[k].suffix \in {".kt", ".kts"}
            THEN futures[k].ast # "no"
            ELSE futures[k].ast = "no" /\ futures[k].regex

\* without --engine and with the parser library, a Kotlin candidate of a
\* Java target has been scanned by the regex engine alone and is in the
\* results
C25_KotlinCandidateOfJavaTarget ==
    /\ args_engine = "None" /\ HAS_TREE_SITTER
    /\ target.suffix = ".java"
    /\ main_pc = "exit"
    /\ \E k \in ScannedCandidates :
           /\ source_files[k].suffix = ".kt"
           /\ futures[k].ast = "no" /\ futures[k].regex
           /\ EntriesOf(source_files[k].path) # {}

\* parse_target_metadata is over on a target file that could be read
TargetParsed == main_pc \in {"parse_members", "error"} /\ target.readable

\* C26: target resolution works on neutralized text: a package line or a
\* declaration that occurs only inside a comment or a string literal of
\* the target file is never chosen as the package or the class name, and
\* a target whose only declarations are inside comments fails with the
\* no-declaration error.
C26_ResolvedOnNeutralizedText ==
    TargetParsed =>
        With(strip_comments_and_strings(target.content), LAMBDA clean :
        With(ClassNames(clean), LAMBDA declared :
            /\ declared = <<>> => metadata.raised
            /\ ~metadata.raised =>
                   /\ InSeq(metadata.class_name, declared)
                   /\ metadata.package = FilePackage(clean)))

\* C26 (what the code does): the package and the class name are taken from
\* the text of the file as it is.
C26_ResolvedOnRawText ==
    TargetParsed =>
        With(ClassNames(target.content), LAMBDA declared :
            /\ metadata.raised = (declared = <<>>)
            /\ ~metadata.raised =>
                   /\ InSeq(metadata.class_name, declared)
                   /\ metadata.package = FilePackage(target.content))

\* the class name is that of a declaration inside a block comment of a
\* target file that declares nothing else
C26_NameFromComment ==
    /\ TargetParsed
    /\ ~metadata.raised
    /\ metadata.class_name = <<"C">>
    /\ ClassNames(strip_comments_and_strings(target.content)) = <<>>

(***************************************************************************)
(* C21: the inventory and the lexical scope of the chosen class            *)
(***************************************************************************)
RECURSIVE ClosingBrace(_, _, _)
\* the index of the brace that closes the one open at depth d, from p on
\* (Len(s) + 1 when none does)
ClosingBrace(s, p, d) ==
    IF p > Len(s) THEN p
    ELSE IF s[p] = "}" THEN (IF d = 1 THEN p ELSE ClosingBrace(s, p + 1, d - 1))
    ELSE IF s[p] = "{" THEN ClosingBrace(s, p + 1, d + 1)
    ELSE ClosingBrace(s, p + 1, d)

\* the declaration of class cn in the text, from the keyword class to the
\* brace that closes its body; <<>> when the text has no such class
ClassScope(cn, clean_content) ==
    With(SearchStart(ClassPattern(cn), clean_content), LAMBDA class_start :
        IF class_start = 0 THEN <<>>
        ELSE With(Min(Ends(ClassPattern(cn), clean_content, class_start)), LAMBDA open :
                 SubSeq(clean_content, class_start,
                        Min({Len(clean_content), ClosingBrace(clean_content, open, 1)}))))

\* the inventory main holds once parse_target_members returned
MembersParsed == main_pc = "engine"

\* C21: every field and every method of the inventory that
\* parse_target_members returns is declared inside the declaration of the
\* chosen class (its constructor and its body from the opening brace to
\* the closing one): a function or a property of another top-level
\* declaration of the file is not in the inventory
C21_OnlyMembersOfChosenClass ==
    MembersParsed =>
        With(strip_comments_and_strings(target.content), LAMBDA clean :
        With(ClassScope(metadata.class_name, clean), LAMBDA scope :
        With(parse_target_members(scope, metadata.class_name), LAMBDA own :
            /\ available_members.fields \subseteq own.fields
            /\ available_members.methods \subseteq own.methods)))

\* what the code does: the members of the chosen class are in the
\* inventory, with the properties and the functions of the whole file
C21_MembersOfTheFile ==
    MembersParsed =>
        With(strip_comments_and_strings(target.content), LAMBDA clean :
            With(ClassScope(metadata.class_name, clean), LAMBDA scope :
            With(parse_target_members(scope, metadata.class_name), LAMBDA own :
                /\ own.fields \subseteq available_members.fields
                /\ own.methods \subseteq available_members.methods
                /\ available_members.fields \ own.fields
                       \subseteq NamesMatched(field_patterns, clean)
                /\ available_members.methods \ own.methods
                       \subseteq NamesMatched(method_patterns, clean))))

\* class A is chosen, and function g of class B is in the inventory
C21_MethodOfOtherClass ==
    /\ MembersParsed
    /\ metadata.class_name = <<"A">>
    /\ target.content =
           kw_class \o <<SP, "A", "{", NL>> \o kw_fun \o <<SP, "f", "(", ")", "{", "}", NL, "}", NL>>
             \o kw_class \o <<SP, "B", "{", NL>> \o kw_fun \o <<SP, "g", "(", ")", "{", "}", NL, "}", NL>>
    /\ available_members.methods = {<<"f">>, <<"g">>}

(***************************************************************************)
(* C22: a user of the target in another package                            *)
(***************************************************************************)
\* the file imports the target's FQN
ImportsTarget == Search(Cat(<<Bol, Lit(ImportFqn)>>), content)

\* the file constructs the target through its simple name: val f=Foo()
ConstructsTarget == Search(Cat(<<Bol, Lit(FragConstructed)>>), content)

\* the file calls method m on that variable: f.m()
CallsOnVariable(m) == Search(Cat(<<Bol, Lit(<<"f", ".">> \o m \o <<"(">>)>>), content)

\* the scanned file is in another package than the target, imports the
\* target and constructs it, and the scan had the default scope flags
UserScanned ==
    /\ pc = "done"
    /\ ~strict_import /\ ~same_pkg_ok
    /\ FilePackage(content) # target_pkg
    /\ ImportsTarget
    /\ ConstructsTarget

\* C22: a file of another package that imports the target's FQN and
\* constructs the target through its simple name has matches in class
\* mode, on the import and on the construction; in method mode it has
\* matches when it calls a selected method on the variable, and a hit for
\* every selected method it calls, on the line of the call; default flags
C22_UserFound ==
    UserScanned =>
        IF mode = "class"
        THEN /\ total_matches >= 2
             /\ \E k \in 1..Len(line_hits) :
                    line_hits[k].snippet = Strip(FragConstructed)
        ELSE \A j \in 1..Len(members) :
                 CallsOnVariable(members[j]) =>
                     /\ total_matches > 0
                     /\ \E k \in 1..Len(line_hits) :
                            /\ line_hits[k].member = members[j]
                            /\ line_hits[k].snippet =
                                   <<"f", ".">> \o members[j] \o <<"(", ")">>

\* C22: a file of package q that imports p.Foo, constructs f and calls
\* f.run() and f.go(), scanned in method mode for run and go with the
\* default flags: two matches, one hit for each method
C22_BothMethodsFound ==
    /\ UserScanned
    /\ mode = "method"
    /\ members = method_members \o <<method_go>>
    /\ file_package = <<"q">>
    /\ CallsOnVariable(method_members[1]) /\ CallsOnVariable(method_go)
    /\ total_matches = 2
    /\ Len(line_hits) = 2

\* a file of package q that imports p.Foo and constructs f, scanned in
\* class mode with the default flags: it has matches
C22_ClassModeFound ==
    /\ UserScanned
    /\ mode = "class"
    /\ file_package = <<"q">>
    /\ total_matches >= 2

(***************************************************************************)
(* C24, C30: the enumeration of the candidate files                        *)
(***************************************************************************)
\* a part of the path is an always-ignored name
UnderIgnored(path) == \E k \in 1..Len(path) : path[k] \in always_ignore

\* the files of the tree that iter_source_files is to yield by their path
\* below the root: a scanned extension, no always-ignored part and no
\* match of a gitignore pattern
Eligible ==
    {f \in tree_files :
        /\ Suffix(f[Len(f)]) \in exts
        /\ ~UnderIgnored(f)
        /\ ~(HAS_PATHSPEC /\ MatchFile(gitignore, f))}

\* C24: iter_source_files never yields a file that lies under an
\* always-ignored directory at any depth below the root, and os.walk
\* never enters such a directory; main scans the yielded files only
C24_IgnoredNeverYielded ==
    /\ \A k \in 1..Len(yielded) : ~UnderIgnored(yielded[k])
    /\ \A k \in 1..Len(pending) : ~UnderIgnored(pending[k])

\* the walk of a tree with src/U.kt and build/src/U.kt is done: only
\* src/U.kt was yielded
C24_BuildSkipped ==
    /\ walk_pc = "done"
    /\ tree_files = {<<n_src, n_U_kt>>, <<n_build, n_src, n_U_kt>>}
    /\ yielded = <<(<<n_src, n_U_kt>>)>>

\* C30: once the enumeration is done, every file of the tree with a
\* scanned extension, whose path below the root has no always-ignored
\* part and matches no gitignore pattern, has been yielded, wherever the
\* root is located
C30_EligibleYielded ==
    walk_pc = "done" => \A f \in Eligible : InSeq(f, yielded)

\* what the code does: the eligible files are yielded when no part of
\* the path of the root itself is an always-ignored name, and nothing is
\* yielded when one is
C30_EligibleYieldedUnlessRootIgnored ==
    walk_pc = "done" =>
        IF UnderIgnored(root) THEN yielded = <<>>
        ELSE \A f \in tree_files : InSeq(f, yielded) <=> f \in Eligible

\* the root is /w/build, the tree holds U.kt and src/U.kt, and the
\* enumeration is done without a file
C30_NothingBelowBuildRoot ==
    /\ walk_pc = "done"
    /\ root = <<n_w, n_build>>
    /\ tree_files = {<<n_U_kt>>, <<n_src, n_U_kt>>}
    /\ gitignore = <<>>
    /\ yielded = <<>>

====
